---- MODULE Spec2Model ----
(***************************************************************************)
(* Motion-triggered segmented capture pipeline of                          *)
(* src/reference/detection_cam0.py: the two motion detectors, the          *)
(* pre-event frame buffer, the video recorder with its merge worker, and   *)
(* the controller (MotionDetectionSystem) that hands the camera over       *)
(* between the monitoring stream and the post-event capture.               *)
(*                                                                         *)
(* The specifications of the module:                                       *)
(*   SpecDet  a detector driven by arbitrary frames and a clock            *)
(*   SpecBuf  the pre-event buffer driven by arbitrary pushes              *)
(*   SpecCfg  the buffer of a system built from any Config                 *)
(*   SpecCam  the frame source, its methods called in any order            *)
(*   Spec     the controller, the recorder, the capture subprocesses and   *)
(*            the merge workers                                            *)
(*   SpecLive Spec with the main thread scheduled fairly                   *)
(*   SpecFair Spec with the main thread and the merge workers scheduled    *)
(*            fairly                                                       *)
(*   SpecCtl  Spec with the SimpleMotionDetector run in the loop, without  *)
(*            signals                                                      *)
(*   SpecMon  Spec with the frame source and the pre-event buffer in the   *)
(*            loop, without signals                                        *)
(*   SpecTwo  Spec for one session more, without signals                   *)
(*                                                                         *)
(* and of src/reference/camera_manager.py:                                 *)
(*   SpecUcm  the UnifiedCameraManager, its public operations called by    *)
(*            several threads                                              *)
(***************************************************************************)
EXTENDS Integers, Sequences, FiniteSets, TLC

VARIABLES
    \* ---- detector (SimpleMotionDetector / HandWaveDetector) ----
    detector_type,        \* "simple" | "hand_wave" (MotionDetectorFactory)
    background_frames,    \* len(self.background_frames)
    background_frame,     \* "None" | "median" | "blended"
    background_ready,     \* self.background_ready
    last_detection_time,  \* self.last_detection_time
    det_frame_count,      \* self.frame_count of the detector
    hand_positions,       \* HandWaveDetector.hand_positions (x of each centre)
    now,                  \* time.time(), whole seconds
    motion_detected,      \* value returned by the last detect() (False before)
    was_ready,            \* background_ready on entry of the last detect()
    det_input,            \* what the last detect() saw of its frame
    blended,              \* the last detect() blended its frame into the background
    trigger_times,        \* times of the detect() calls that returned True
                          \* since construction or the last reset()
    \* ---- pre-event buffer (VideoRecorder.frame_buffer) ----
    pre_buffer,           \* VideoRecorder.pre_buffer (seconds)
    frame_buffer,         \* deque of encoded frames, oldest first
    pushed,               \* every frame handed to add_frame_to_buffer, in order
    buffer_clip,          \* frames written by the last save_buffer_to_file
    \* ---- controller (MotionDetectionSystem), main thread ----
    pc,                   \* where the main thread is
    stack,                \* return labels of the calls of stop / stop_recording
    unwind,               \* what sys.exit(0) of the handler will do: "finally" when
                          \* it unwinds through the loop's try, "resume" when a
                          \* bare except swallows it
    signalled,            \* _signal_handler has been entered
    running,              \* self.running
    video_path,           \* local of _trigger_recording_sync (0 = None)
    events,               \* event_manager.events: the video_path of each event
                          \* (0 = None), oldest first
    cam,                  \* camera_manager.process: "None" | "alive" | "exited"
    \* ---- recorder (VideoRecorder) ----
    is_recording,
    recording_process,    \* session whose Popen handle it holds (0 = None)
    current_recording_path, \* session whose output path it holds (0 = None)
    current_temp_files,   \* sessions whose temp_post file is tracked
    merge_thread,         \* session whose worker thread it holds (0 = None)
    nsessions,            \* sessions begun so far; a session is named by its number
    session_limit,        \* a run is followed until it would begin one session more
    conflicts,            \* start_recording calls made while is_recording was set
    checked,              \* the last check_and_cleanup_recording that found a file:
                          \* what it found, what it returned, whether it deleted
    \* ---- post-event capture subprocesses, one per session ----
    proc,                 \* "none" | "alive" | "exit0" | "failed"
    opened,               \* the subprocess has created its output file
    \* ---- merge workers, one per session ----
    wpc,                  \* where the worker is
    buffer_file,          \* closure variable: TRUE when a pre-roll path was returned
    files_to_merge,       \* len(files_to_merge), 0 before it is computed
    merge_result,         \* value returned by _merge_video_files ("none" before)
    saved,                \* "Recording saved" has been printed
    \* ---- files, one of each kind per session ----
    f_pre,                \* buffer_<ts>.mp4 in buffer_dir exists
    f_post,               \* temp_post_<ts>.h264 exists
    f_out,                \* motion_event_cam0_<ts>.mp4: "absent" | "post" | "merged" | "partial"
    f_list,               \* concat_<stem>.txt exists
    f_h264,               \* buffer_<ts>.h264 in buffer_dir exists
    \* ---- configuration (Config) ----
    config,               \* the Config the system is built from, its sensitivity
                          \* profile applied
    \* ---- frame source (CameraStreamManager) and the loop's frame counter ----
    buffer,               \* camera_manager.buffer: the bytes read and not yet parsed
    ret_frame,            \* the last get_frame() returned "None" or a "frame"
    cam_calls,            \* the methods of the frame source called so far, in order
    frame_count,          \* local frame_count of _run_detection_loop
    \* ---- UnifiedCameraManager (camera_manager.py) ----
    operation_lock,       \* threading.Lock: the thread that holds it (0 = free)
    cameras,              \* ids of the cameras that have a Picamera2 instance
    camera_modes,         \* camera id -> its CameraMode, "absent" without an entry
    recording_handles,    \* ids of the cameras that have an encoder running
    ucm_calls             \* per thread, its calls into the manager that have not
                          \* returned, innermost last

detVars == <<detector_type, background_frames, background_frame,
             background_ready, last_detection_time, det_frame_count,
             hand_positions, now, motion_detected, was_ready, trigger_times,
             det_input, blended>>
bufVars == <<pre_buffer, frame_buffer, pushed, buffer_clip>>
ctlVars == <<pc, stack, unwind, signalled, running, video_path, events>>
recVars == <<is_recording, recording_process, current_recording_path,
             current_temp_files, merge_thread, nsessions, conflicts, checked>>
procVars == <<proc, opened>>
wrkVars == <<wpc, buffer_file, files_to_merge, merge_result, saved>>
fileVars == <<f_pre, f_post, f_out, f_list, f_h264>>
ucmVars == <<operation_lock, cameras, camera_modes, recording_handles, ucm_calls>>
sysVars == <<ctlVars, cam, recVars, procVars, wrkVars, fileVars, session_limit,
             ucmVars>>
\* what no step of the controller outside the loop changes
monVars == <<config, ret_frame, cam_calls, frame_count>>
vars == <<detVars, bufVars, sysVars, monVars, buffer>>

----------------------------------------------------------------------------
(* Program constants *)

\* SENSITIVITY_LEVELS['very_high']: the profile the detector is run with here
THRESHOLD == 1000
COOLDOWN == 3
\* frames absorbed before the background is ready
WARMUP_SIMPLE == 60
WARMUP_HAND == 30
BG_UPDATE_FAST == 10
BG_UPDATE_HAND == 20
WAVE_PATTERN_FRAMES == 4
MOVEMENT_THRESHOLD == 15
FRAMERATE == 30
SKIP_FRAME == 3
FRAME_DUPLICATION == 3
PRE_BUFFER_DURATION == 5
POST_BUFFER_DURATION == 25
\* _merge_video_files: "-t", "30"
MERGE_TIME_LIMIT == 30

(* Bounds of the model *)
MaxCalls == 70          \* detect() calls per detector run
TimeSpan == 4           \* seconds the clock advances past StartTime
MaxPreBuffer == 1       \* pre_buffer is drawn from 0..MaxPreBuffer seconds
MaxPushes == 12         \* add_frame_to_buffer calls per buffer run
MaxSessions == 1        \* recording sessions begun per run
MaxChunk == 2           \* bytes returned by one stdout.read(4096)
MaxCamCalls == 4        \* calls of the frame source's methods per run
MaxFrames == 6          \* frames decoded by the loop per run
MaxThreads == 2         \* threads that call into the UnifiedCameraManager

\* time.time() counts seconds since 1970: far beyond any cooldown, so the
\* initial last_detection_time = 0 never gates a call.
StartTime == COOLDOWN + 1
MaxTime == StartTime + TimeSpan

\* What detect() sees of a frame.  changed_pixels is the count of pixels whose
\* difference to the background exceeds DELTA_THRESHOLD; hand is the x of the
\* largest hand candidate's centre, or -1 when there is no candidate.
ChangedPixels == {0, THRESHOLD, THRESHOLD + 1}
HandXs == {0, 10, 20}
NoHand == -1
FrameContents == {0, 1}

----------------------------------------------------------------------------
(* Configuration *)

\* SENSITIVITY_LEVELS, lines 63-89, from the least to the most sensitive label
SensitivityLabels == <<"very_low", "low", "medium", "high", "very_high">>
SENSITIVITY_LEVELS ==
    [l \in {"very_low", "low", "medium", "high", "very_high"} |->
        CASE l = "very_low"  -> [threshold |-> 15000, cooldown |-> 15]
          [] l = "low"       -> [threshold |-> 10000, cooldown |-> 12]
          [] l = "medium"    -> [threshold |-> 6000, cooldown |-> 8]
          [] l = "high"      -> [threshold |-> 3000, cooldown |-> 5]
          [] l = "very_high" -> [threshold |-> THRESHOLD, cooldown |-> COOLDOWN]]
CURRENT_SENSITIVITY == "low"

\* a Config whose label is always read as CURRENT_SENSITIVITY
ApplySensitivitySettingsDefault(cfg) ==
    LET sensitivity_config == SENSITIVITY_LEVELS[CURRENT_SENSITIVITY]
    IN  [sensitivity |-> cfg.sensitivity,
         framerate |-> cfg.framerate,
         skip_frames |-> cfg.skip_frames,
         pre_buffer |-> cfg.pre_buffer,
         post_buffer |-> cfg.post_buffer,
         threshold |-> sensitivity_config.threshold,
         cooldown |-> sensitivity_config.cooldown]

\* Config._apply_sensitivity_settings on the dictionary given to Config():
\* the entry of the label, or of CURRENT_SENSITIVITY for an unknown label
ApplySensitivitySettings(cfg) ==
    LET sensitivity_config ==
            IF cfg.sensitivity \in DOMAIN SENSITIVITY_LEVELS
            THEN SENSITIVITY_LEVELS[cfg.sensitivity]
            ELSE SENSITIVITY_LEVELS[CURRENT_SENSITIVITY]
    IN  [sensitivity |-> cfg.sensitivity,
         framerate |-> cfg.framerate,
         skip_frames |-> cfg.skip_frames,
         pre_buffer |-> cfg.pre_buffer,
         post_buffer |-> cfg.post_buffer,
         threshold |-> sensitivity_config.threshold,
         cooldown |-> sensitivity_config.cooldown]

\* the configuration of the runs followed by the detector, buffer and
\* controller specifications: the module constants, the most sensitive label
RunConfig(pre) ==
    [sensitivity |-> "very_high", framerate |-> FRAMERATE,
     skip_frames |-> SKIP_FRAME, pre_buffer |-> pre,
     post_buffer |-> POST_BUFFER_DURATION]

\* the configurations a Config() can be given: every label and an unknown
\* one, and camera rates and skip factors other than the module constants
ConfigDicts ==
    [sensitivity : {"very_low", "low", "medium", "high", "very_high", "extreme"},
     framerate : {FRAMERATE, 2 * FRAMERATE},
     skip_frames : {SKIP_FRAME - 1, SKIP_FRAME},
     pre_buffer : {1, PRE_BUFFER_DURATION},
     post_buffer : {POST_BUFFER_DURATION - 5, POST_BUFFER_DURATION}]

\* Config.__init__, CameraStreamManager.__init__ and the loop's frame_count
MonInit(cfg) ==
    /\ config = ApplySensitivitySettings(cfg)
    /\ buffer = <<>>
    /\ ret_frame = "None"
    /\ cam_calls = <<>>
    /\ frame_count = 0

----------------------------------------------------------------------------
(* Detectors *)

Warmup(type) == IF type = "simple" THEN WARMUP_SIMPLE ELSE WARMUP_HAND

\* the cooldown gate of detect(): lines 363 and 446
InCooldownNever(t, last, cd) == FALSE
InCooldown(t, last, cd) == t - last < cd

\* the sample that completes the warm-up: lines 373 and 456
WarmupCompleteEarly(n, type) == n >= Warmup(type) - 1
WarmupComplete(n, type) == n = Warmup(type)

Min(S) == CHOOSE x \in S : \A y \in S : x <= y
Max(S) == CHOOSE x \in S : \A y \in S : x >= y

\* an analysis that takes every inner position for a change of direction
DirectionChangesAny(xs) == Len(xs) - 2

\* HandWaveDetector._analyze_wave_pattern on the x positions
DirectionChanges(xs) ==
    Cardinality({i \in 2..(Len(xs) - 1) :
        \/ (xs[i] > xs[i-1] /\ xs[i] > xs[i+1])
        \/ (xs[i] < xs[i-1] /\ xs[i] < xs[i+1])})

AnalyzeWavePattern(xs) ==
    IF Len(xs) < WAVE_PATTERN_FRAMES THEN FALSE
    ELSE LET S == {xs[i] : i \in 1..Len(xs)}
             x_range == Max(S) - Min(S)
         IN  IF x_range < MOVEMENT_THRESHOLD THEN FALSE
             ELSE DirectionChanges(xs) >= 1

\* HandWaveDetector.detect, lines 499-504: track the largest candidate
TrackHand(xs, x) ==
    LET a == Append(xs, x)
    IN  IF Len(a) > WAVE_PATTERN_FRAMES THEN Tail(a) ELSE a

\* lines 371-378 / 454-461: one warm-up sample is absorbed, detect() says False
AbsorbSample ==
    /\ background_frames' = background_frames + 1
    /\ IF WarmupComplete(background_frames + 1, detector_type)
       THEN background_frame' = "median" /\ background_ready' = TRUE
       ELSE UNCHANGED <<background_frame, background_ready>>
    /\ motion_detected' = FALSE
    /\ blended' = FALSE
    /\ UNCHANGED <<last_detection_time, hand_positions, trigger_times>>

\* a detector that learns its background anew at every update period
UpdateBackgroundRelearns(period) ==
    /\ blended' = FALSE
    /\ IF (det_frame_count + 1) % period = 0
       THEN /\ background_frame' = "None"
            /\ background_frames' = 0
            /\ background_ready' = FALSE
       ELSE UNCHANGED <<background_frame, background_frames, background_ready>>

\* a detector that blends every frame without motion into its background
UpdateBackgroundEveryCall(period) ==
    /\ background_frame' = "blended"
    /\ blended' = TRUE
    /\ UNCHANGED <<background_frames, background_ready>>

\* lines 401-403 / 516-518: the adaptive background update of a call without
\* motion, every period-th call
UpdateBackground(period) ==
    /\ background_frame' = IF (det_frame_count + 1) % period = 0
                           THEN "blended" ELSE background_frame
    /\ blended' = ((det_frame_count + 1) % period = 0)
    /\ UNCHANGED <<background_frames, background_ready>>

\* a comparison that also fires on a count equal to the threshold
ExceedsThresholdOrEqual(changed_pixels) == changed_pixels >= THRESHOLD
\* line 395: if changed_pixels > self.threshold
ExceedsThreshold(changed_pixels) == changed_pixels > THRESHOLD

\* SimpleMotionDetector.detect
SimpleDetect(changed_pixels) ==
    /\ detector_type = "simple"
    /\ det_frame_count < MaxCalls
    /\ det_frame_count' = det_frame_count + 1
    /\ was_ready' = background_ready
    /\ det_input' = changed_pixels
    /\ IF InCooldown(now, last_detection_time, COOLDOWN)
       THEN /\ motion_detected' = FALSE
            /\ blended' = FALSE
            /\ UNCHANGED <<background_frames, background_frame, background_ready,
                           last_detection_time, hand_positions, trigger_times>>
       ELSE IF background_frames < WARMUP_SIMPLE
       THEN AbsorbSample
       ELSE IF ~background_ready
       THEN /\ motion_detected' = FALSE
            /\ blended' = FALSE
            /\ UNCHANGED <<background_frames, background_frame, background_ready,
                           last_detection_time, hand_positions, trigger_times>>
       ELSE IF ExceedsThreshold(changed_pixels)
       THEN /\ last_detection_time' = now
            /\ motion_detected' = TRUE
            /\ blended' = FALSE
            /\ trigger_times' = Append(trigger_times, now)
            /\ UNCHANGED <<background_frames, background_frame, background_ready,
                           hand_positions>>
       ELSE /\ UpdateBackground(BG_UPDATE_FAST)
            /\ motion_detected' = FALSE
            /\ UNCHANGED <<last_detection_time, hand_positions, trigger_times>>
    /\ UNCHANGED <<detector_type, now>>

\* HandWaveDetector.detect; hand = NoHand when no contour is a hand candidate
HandWaveDetect(hand) ==
    /\ detector_type = "hand_wave"
    /\ det_frame_count < MaxCalls
    /\ det_frame_count' = det_frame_count + 1
    /\ was_ready' = background_ready
    /\ det_input' = hand
    /\ IF InCooldown(now, last_detection_time, COOLDOWN)
       THEN /\ motion_detected' = FALSE
            /\ blended' = FALSE
            /\ UNCHANGED <<background_frames, background_frame, background_ready,
                           last_detection_time, hand_positions, trigger_times>>
       ELSE IF background_frames < WARMUP_HAND
       THEN AbsorbSample
       ELSE IF ~background_ready
       THEN /\ motion_detected' = FALSE
            /\ blended' = FALSE
            /\ UNCHANGED <<background_frames, background_frame, background_ready,
                           last_detection_time, hand_positions, trigger_times>>
       ELSE LET tracked == IF hand # NoHand THEN TrackHand(hand_positions, hand)
                           ELSE IF Len(hand_positions) > 0
                                THEN Tail(hand_positions) ELSE hand_positions
                wave == /\ hand # NoHand
                        /\ Len(tracked) >= WAVE_PATTERN_FRAMES
                        /\ AnalyzeWavePattern(tracked)
            IN  IF wave
                THEN /\ last_detection_time' = now
                     /\ hand_positions' = <<>>
                     /\ motion_detected' = TRUE
                     /\ blended' = FALSE
                     /\ trigger_times' = Append(trigger_times, now)
                     /\ UNCHANGED <<background_frames, background_frame,
                                    background_ready>>
                ELSE /\ hand_positions' = tracked
                     /\ UpdateBackground(BG_UPDATE_HAND)
                     /\ motion_detected' = FALSE
                     /\ UNCHANGED <<last_detection_time, trigger_times>>
    /\ UNCHANGED <<detector_type, now>>

\* a reset() that leaves the cooldown timestamp alone
DetResetKeepsTimer ==
    /\ background_frame' = "None"
    /\ background_frames' = 0
    /\ background_ready' = FALSE
    /\ hand_positions' = <<>>
    /\ det_frame_count' = 0
    /\ trigger_times' = <<>>
    /\ UNCHANGED <<detector_type, now, motion_detected, was_ready,
                   last_detection_time, det_input, blended>>

\* SimpleMotionDetector.reset / HandWaveDetector.reset
DetReset ==
    /\ background_frame' = "None"
    /\ background_frames' = 0
    /\ background_ready' = FALSE
    /\ hand_positions' = <<>>
    /\ det_frame_count' = 0
    /\ last_detection_time' = 0
    /\ trigger_times' = <<>>
    /\ UNCHANGED <<detector_type, now, motion_detected, was_ready, det_input,
                   blended>>

\* the clock read by time.time() moves on
Tick ==
    /\ now < MaxTime
    /\ now' = now + 1
    /\ UNCHANGED <<detector_type, background_frames, background_frame,
                   background_ready, last_detection_time, det_frame_count,
                   hand_positions, motion_detected, was_ready, trigger_times,
                   det_input, blended>>

\* SimpleMotionDetector.__init__ / HandWaveDetector.__init__
DetInit(type) ==
    /\ detector_type = type
    /\ background_frames = 0
    /\ background_frame = "None"
    /\ background_ready = FALSE
    /\ last_detection_time = 0
    /\ det_frame_count = 0
    /\ hand_positions = <<>>
    /\ now = StartTime
    /\ motion_detected = FALSE
    /\ was_ready = FALSE
    /\ trigger_times = <<>>
    /\ det_input = 0
    /\ blended = FALSE

----------------------------------------------------------------------------
(* Pre-event buffer *)

\* VideoRecorder.__init__, lines 587-588: deque(maxlen=...)
BufferMaxlen(pre) == pre * (FRAMERATE \div SKIP_FRAME)

\* deque.append with maxlen: the oldest element is dropped when full
DequeAppendUnbounded(q, x, maxlen) == Append(q, x)
DequeAppend(q, x, maxlen) ==
    IF maxlen = 0 THEN q
    ELSE IF Len(q) = maxlen THEN Append(Tail(q), x)
    ELSE Append(q, x)

\* cv2.imencode('.jpg', frame): the stored element is the encoded frame
Imencode(frame) == [jpeg |-> frame]
Imdecode(jpeg_data) == jpeg_data.jpeg

\* VideoRecorder.add_frame_to_buffer
AddFrameToBuffer(frame) ==
    /\ Len(pushed) < MaxPushes
    /\ frame_buffer' = DequeAppend(frame_buffer, Imencode(frame),
                                   BufferMaxlen(pre_buffer))
    /\ pushed' = Append(pushed, Imencode(frame))
    /\ UNCHANGED <<pre_buffer, buffer_clip>>

\* the frames VideoWriter receives in save_buffer_to_file, lines 632-639
RECURSIVE ClipFrames(_)
ClipFrames(q) ==
    IF q = <<>> THEN <<>>
    ELSE [i \in 1..FRAME_DUPLICATION |-> Imdecode(Head(q))] \o ClipFrames(Tail(q))

\* VideoRecorder.save_buffer_to_file: None for an empty buffer
SaveBufferToFile ==
    /\ buffer_clip' = IF frame_buffer = <<>> THEN "None" ELSE ClipFrames(frame_buffer)
    /\ UNCHANGED <<pre_buffer, frame_buffer, pushed>>

BufInit(pre) ==
    /\ pre_buffer = pre
    /\ frame_buffer = <<>>
    /\ pushed = <<>>
    /\ buffer_clip = "None"

----------------------------------------------------------------------------
(* Camera stream, capture subprocesses, recorder and merge workers *)

Sessions == 1..(MaxSessions + 1)

\* labels at which the main thread is inside the try of _run_detection_loop
TryLabels == {"loop", "trig_stop", "sr_begin", "sr_spawn", "trig_sleep",
              "rs_stop", "rs_start"}

Return == pc' = Head(stack) /\ stack' = Tail(stack)

\* CameraStreamManager.is_streaming
IsStreaming == cam = "alive"

\* CameraStreamManager.stop_stream: the process, alive or not, is let go of
\* (SIGTERM, a wait of 3 s, SIGKILL when the wait or the signal raises) and
\* the byte buffer is emptied
StopStreamKeepsBuffer == cam' = "None" /\ UNCHANGED buffer
StopStream == cam' = "None" /\ buffer' = <<>>

\* the bytes of a stream: 0xFF, 0xD8 and 0xD9 make the JPEG markers
Bytes == {255, 216, 217}
start_marker == <<255, 216>>
end_marker == <<255, 217>>

\* what one stdout.read(4096) can return: b"" at the end of the stream
Chunks == UNION {[1..n -> Bytes] : n \in 0..MaxChunk}

\* bytes.find(sub, start) with 0-based positions, -1 when there is no match; a
\* negative start counts from the end
Find(buf, sub, start) ==
    LET from == IF start >= 0 THEN start
                ELSE IF Len(buf) + start > 0 THEN Len(buf) + start ELSE 0
        hits == {i \in from..(Len(buf) - Len(sub)) :
                    SubSeq(buf, i + 1, i + Len(sub)) = sub}
    IN  IF hits = {} THEN -1 ELSE Min(hits)

\* CameraStreamManager._extract_frame_from_mjpeg: the first complete JPEG and
\* the bytes after it, or None and the whole buffer
ExtractFrameFromMjpeg(buf) ==
    LET start_pos == Find(buf, start_marker, 0)
        end_pos == Find(buf, end_marker, start_pos)
    IN  IF start_pos >= 0 /\ end_pos > start_pos
        THEN [found |-> TRUE,
              jpeg_data |-> SubSeq(buf, start_pos + 1, end_pos + 2),
              remaining_buffer |-> SubSeq(buf, end_pos + 3, Len(buf))]
        ELSE [found |-> FALSE, jpeg_data |-> <<>>, remaining_buffer |-> buf]

\* CameraStreamManager.get_frame, the chunk being what stdout.read returned and
\* decoded what cv2.imdecode made of the JPEG (None for bytes it cannot decode)
GetFrame(chunk, decoded) ==
    IF ~IsStreaming \/ chunk = <<>>
    THEN ret_frame' = "None" /\ UNCHANGED buffer
    ELSE LET r == ExtractFrameFromMjpeg(buffer \o chunk)
         IN  /\ buffer' = r.remaining_buffer
             /\ ret_frame' = IF r.found /\ decoded THEN "frame" ELSE "None"

\* a client calls start_stream(): Popen succeeds or raises
CamStartStream ==
    /\ Len(cam_calls) < MaxCamCalls
    /\ cam_calls' = Append(cam_calls, "start_stream")
    /\ \E ok \in BOOLEAN : cam' = IF ok THEN "alive" ELSE cam
    /\ UNCHANGED <<buffer, ret_frame, config, frame_count, ctlVars, recVars,
                   procVars, wrkVars, fileVars, bufVars>>

\* a client calls stop_stream()
CamStopStream ==
    /\ Len(cam_calls) < MaxCamCalls
    /\ cam_calls' = Append(cam_calls, "stop_stream")
    /\ StopStream
    /\ UNCHANGED <<ret_frame, config, frame_count, ctlVars, recVars, procVars,
                   wrkVars, fileVars, bufVars>>

\* a client calls get_frame()
CamGetFrame ==
    /\ Len(cam_calls) < MaxCamCalls
    /\ cam_calls' = Append(cam_calls, "get_frame")
    /\ \E chunk \in Chunks, decoded \in BOOLEAN : GetFrame(chunk, decoded)
    /\ UNCHANGED <<cam, config, frame_count, ctlVars, recVars, procVars,
                   wrkVars, fileVars, bufVars>>

\* MotionDetectionSystem.start: test_camera, start_stream, then the loop
Start ==
    /\ pc = "start"
    /\ \E ok \in BOOLEAN :
         IF ok THEN cam' = "alive" /\ running' = TRUE /\ pc' = "loop"
         ELSE pc' = "exited" /\ UNCHANGED <<cam, running>>
    /\ UNCHANGED <<stack, unwind, signalled, events, video_path, recVars, procVars,
                   wrkVars, fileVars, bufVars>>

\* the monitoring capture process ends by itself (crash, camera lost)
CamDies ==
    /\ cam = "alive"
    /\ cam' = "exited"
    /\ UNCHANGED <<ctlVars, recVars, procVars, wrkVars, fileVars, bufVars>>

\* a run is followed while its next trigger can still be followed through
EventLimit == session_limit + 1
CanTrigger ==
    /\ Len(events) < EventLimit
    /\ nsessions < session_limit \/ is_recording

\* a loop whose event manager puts the new event in front of the older ones
LoopStepPrepends(motion) ==
    /\ pc = "loop"
    /\ IF ~running \/ ~IsStreaming
       THEN pc' = "stop" /\ stack' = <<"exited">> /\ UNCHANGED events
       ELSE IF motion
       THEN events' = <<0>> \o events /\ pc' = "trig_stop" /\ UNCHANGED stack
       ELSE pc' = "loop" /\ UNCHANGED <<stack, events>>
    /\ UNCHANGED <<unwind, signalled, running, video_path, cam, recVars,
                   procVars, wrkVars, fileVars, bufVars>>

\* one iteration of _run_detection_loop, lines 1261-1297, motion being what
\* detect() said of the frame; on motion the event is appended to the
\* EventManager's list (handle_motion_detected) before the trigger is served
LoopStep(motion) ==
    /\ pc = "loop"
    /\ IF ~running \/ ~IsStreaming
       THEN \* the loop ends; finally: self.stop()
            pc' = "stop" /\ stack' = <<"exited">> /\ UNCHANGED events
       ELSE IF motion
       THEN events' = Append(events, 0) /\ pc' = "trig_stop" /\ UNCHANGED stack
       ELSE pc' = "loop" /\ UNCHANGED <<stack, events>>
    /\ UNCHANGED <<unwind, signalled, running, video_path, cam, recVars,
                   procVars, wrkVars, fileVars, bufVars>>

\* the iteration with the verdict of detect() as an input (SpecDet models the
\* detectors); the content of the frame buffer is not followed here (SpecBuf
\* models it)
LoopIter ==
    \E motion \in BOOLEAN :
        /\ motion => CanTrigger
        /\ LoopStep(motion)

\* the iteration with detect() of the SimpleMotionDetector run on the frame,
\* lines 1283-1297
LoopDetect ==
    IF pc = "loop" /\ running /\ IsStreaming
    THEN \E cp \in ChangedPixels :
            /\ SimpleDetect(cp)
            /\ motion_detected' => CanTrigger
            /\ LoopStep(motion_detected')
    ELSE LoopStep(FALSE) /\ UNCHANGED detVars

\* what the monitoring loop reads from a stream of JPEG frames: the two
\* halves of a frame, or nothing at the end of the stream
StreamChunks == {<<>>, start_marker, end_marker}

\* a loop that feeds the buffer whether or not a recording is going on
BufferFedAlways == TRUE
\* line 1275: the loop feeds the pre-event buffer while is_recording is clear
BufferFed == ~is_recording

\* one iteration of _run_detection_loop, lines 1261-1297, with the frame
\* source, the loop's frame counter and the pre-event buffer: get_frame, the
\* push of the decoded frame, the frame skipping, and the verdict of detect()
\* on every skip_frames-th frame as an input
LoopFrame ==
    /\ pc = "loop"
    /\ IF ~running \/ ~IsStreaming
       THEN /\ pc' = "stop"
            /\ stack' = <<"exited">>
            /\ UNCHANGED <<events, buffer, ret_frame, frame_count, bufVars>>
       ELSE \E chunk \in StreamChunks, decoded \in BOOLEAN, motion \in BOOLEAN :
              /\ Len(buffer) + Len(chunk) <= 2 * MaxChunk
              /\ GetFrame(chunk, decoded)
              /\ IF ret_frame' = "None"
                 THEN /\ ~motion
                      /\ pc' = "loop"
                      /\ UNCHANGED <<stack, events, frame_count, bufVars>>
                 ELSE /\ frame_count < MaxFrames
                      /\ frame_count' = frame_count + 1
                      /\ IF BufferFed THEN AddFrameToBuffer(ret_frame')
                         ELSE UNCHANGED bufVars
                      /\ IF frame_count' % config.skip_frames # 0
                         THEN ~motion /\ pc' = "loop" /\ UNCHANGED <<stack, events>>
                         ELSE /\ motion => CanTrigger
                              /\ IF motion
                                 THEN events' = Append(events, 0) /\ pc' = "trig_stop"
                                 ELSE pc' = "loop" /\ UNCHANGED events
                              /\ UNCHANGED stack
    /\ UNCHANGED <<unwind, signalled, running, video_path, cam, recVars,
                   procVars, wrkVars, fileVars, config, cam_calls>>

\* a controller that hands the camera over without stopping the stream
TriggerStopStreamSkipped ==
    /\ pc = "trig_stop"
    /\ pc' = "sr_begin"
    /\ UNCHANGED buffer
    /\ UNCHANGED <<stack, unwind, signalled, events, running, video_path, cam,
                   recVars, procVars, wrkVars, fileVars, bufVars>>

\* _trigger_recording_sync, line 1315: camera_manager.stop_stream()
TriggerStopStream ==
    /\ pc = "trig_stop"
    /\ StopStream
    /\ pc' = "sr_begin"
    /\ UNCHANGED <<stack, unwind, signalled, events, running, video_path, recVars,
                   procVars, wrkVars, fileVars, bufVars>>

\* VideoRecorder.start_recording, line 742: the refusal check
RefusesNever == FALSE
Refuses == is_recording

\* VideoRecorder.start_recording, lines 742-769: refusal, or the paths of the
\* new session, is_recording and the pre-roll snapshot.  save_buffer_to_file
\* yields a file, or None for an empty buffer or a failed write.
StartRecordingBegin ==
    /\ pc = "sr_begin"
    /\ is_recording \/ nsessions < session_limit
    /\ conflicts' = IF is_recording THEN conflicts + 1 ELSE conflicts
    /\ IF Refuses
       THEN /\ video_path' = 0
            /\ pc' = "rs_stop"
            /\ UNCHANGED <<is_recording, recording_process,
                           current_recording_path, current_temp_files,
                           merge_thread, nsessions, buffer_file, f_pre>>
       ELSE LET s == nsessions + 1
            IN  /\ nsessions' = s
                /\ current_recording_path' = s
                /\ is_recording' = TRUE
                /\ \E snapshot \in BOOLEAN :
                     /\ buffer_file' = [buffer_file EXCEPT ![s] = snapshot]
                     /\ f_pre' = [f_pre EXCEPT ![s] = snapshot]
                /\ pc' = "sr_spawn"
                /\ UNCHANGED <<video_path, recording_process, current_temp_files,
                               merge_thread>>
    /\ UNCHANGED <<stack, unwind, signalled, events, running, cam, checked,
                   procVars, wpc,
                   files_to_merge, merge_result, saved, f_post, f_out, f_list,
                   f_h264, bufVars>>

\* VideoRecorder.start_recording, lines 772-844: track the temp file, spawn the
\* capture process and start the merge worker; a failing Popen is caught
StartRecordingSpawn ==
    /\ pc = "sr_spawn"
    /\ LET s == nsessions
       IN  /\ current_temp_files' = current_temp_files \cup {s}
           /\ \E spawned \in BOOLEAN :
                IF spawned
                THEN /\ proc' = [proc EXCEPT ![s] = "alive"]
                     /\ recording_process' = s
                     /\ merge_thread' = s
                     /\ wpc' = [wpc EXCEPT ![s] = "wait"]
                     /\ video_path' = s
                     /\ pc' = "trig_sleep"
                     /\ UNCHANGED is_recording
                ELSE /\ is_recording' = FALSE
                     /\ video_path' = 0
                     /\ pc' = "rs_stop"
                     /\ UNCHANGED <<proc, recording_process, merge_thread, wpc>>
    /\ UNCHANGED <<stack, unwind, signalled, events, running, cam,
                   current_recording_path, nsessions, conflicts, checked, opened,
                   buffer_file, files_to_merge, merge_result,
                   saved, fileVars, bufVars>>

\* a controller that waits for the capture subprocess itself, without a bound
TriggerSleepUntilExit ==
    /\ pc = "trig_sleep"
    /\ proc[video_path] # "alive"
    /\ events' = [events EXCEPT ![Len(events)] =
                     IF f_out[video_path] # "absent" THEN video_path ELSE 0]
    /\ pc' = "rs_stop"
    /\ UNCHANGED <<stack, unwind, signalled, running, video_path, cam, recVars,
                   procVars, wrkVars, fileVars, bufVars>>

\* _trigger_recording_sync, lines 1320-1325: sleep(post_buffer + 2), then
\* handle_recording_completed sets the event's video_path when the output
\* file exists by then
TriggerSleep ==
    /\ pc = "trig_sleep"
    /\ events' = [events EXCEPT ![Len(events)] =
                     IF f_out[video_path] # "absent" THEN video_path ELSE 0]
    /\ pc' = "rs_stop"
    /\ UNCHANGED <<stack, unwind, signalled, running, video_path, cam, recVars,
                   procVars, wrkVars, fileVars, bufVars>>

\* CameraStreamManager.restart_stream, line 262: stop_stream()
RestartStop ==
    /\ pc = "rs_stop"
    /\ StopStream
    /\ pc' = "rs_start"
    /\ UNCHANGED <<stack, unwind, signalled, events, running, video_path, recVars,
                   procVars, wrkVars, fileVars, bufVars>>

\* a controller that goes on after a failed restart
RestartStartKeepsRunning ==
    /\ pc = "rs_start"
    /\ \E ok \in BOOLEAN :
         IF ok THEN cam' = "alive" /\ UNCHANGED running
         ELSE UNCHANGED <<cam, running>>
    /\ pc' = "loop"
    /\ UNCHANGED <<stack, unwind, signalled, events, video_path, recVars, procVars,
                   wrkVars, fileVars, bufVars>>

\* restart_stream, lines 263-264, and _trigger_recording_sync, lines 1329-1333
RestartStart ==
    /\ pc = "rs_start"
    /\ \E ok \in BOOLEAN :
         IF ok THEN cam' = "alive" /\ UNCHANGED running
         ELSE running' = FALSE /\ UNCHANGED cam
    /\ pc' = "loop"
    /\ UNCHANGED <<stack, unwind, signalled, events, video_path, recVars, procVars,
                   wrkVars, fileVars, bufVars>>

\* the capture subprocess creates temp_post_<ts>.h264
RecProcOpen(s) ==
    /\ proc[s] = "alive"
    /\ ~opened[s]
    /\ opened' = [opened EXCEPT ![s] = TRUE]
    /\ f_post' = [f_post EXCEPT ![s] = TRUE]
    /\ UNCHANGED <<ctlVars, cam, recVars, proc, wrkVars, f_pre, f_out, f_list,
                   f_h264, bufVars>>

\* the capture subprocess ends by itself: after its --timeout with status 0,
\* or earlier with an error or killed from outside
RecProcExit(s) ==
    /\ proc[s] = "alive"
    /\ \E rc \in {"exit0", "failed"} :
         /\ rc = "exit0" => opened[s]
         /\ proc' = [proc EXCEPT ![s] = rc]
    /\ UNCHANGED <<ctlVars, cam, recVars, opened, wrkVars, fileVars, bufVars>>

----------------------------------------------------------------------------
(* merge_worker of session s: the closure of start_recording, lines 796-833 *)

\* line 799: recording_process.wait(timeout=post_buffer + 5); the wait was
\* entered on the session's own process when the thread started.  It returns
\* once the process has exited, or raises TimeoutExpired while it is alive.
WorkerWait(s) ==
    /\ wpc[s] = "wait"
    /\ wpc' = [wpc EXCEPT ![s] = IF proc[s] = "alive" THEN "fin1" ELSE "check"]
    /\ UNCHANGED <<ctlVars, cam, recVars, procVars, buffer_file, files_to_merge,
                   merge_result, saved, fileVars, bufVars>>

\* lines 803-806: the files handed to the merge
FilesToMergeBoth(s) == 2
FilesToMerge(s) == IF buffer_file[s] /\ f_pre[s] THEN 2 ELSE 1

\* lines 801-808: is there a post clip, and is there a pre-roll to merge
WorkerCheck(s) ==
    /\ wpc[s] = "check"
    /\ IF f_post[s]
       THEN /\ files_to_merge' = [files_to_merge EXCEPT ![s] = FilesToMerge(s)]
            /\ wpc' = [wpc EXCEPT ![s] =
                         IF FilesToMerge(s) > 1 THEN "mlist" ELSE "move"]
       ELSE /\ wpc' = [wpc EXCEPT ![s] = "fin1"]
            /\ UNCHANGED files_to_merge
    /\ UNCHANGED <<ctlVars, cam, recVars, procVars, buffer_file, merge_result,
                   saved, fileVars, bufVars>>

\* line 816: shutil.move(temp_post_file, output_path); raises when the temp
\* file is gone
WorkerMove(s) ==
    /\ wpc[s] = "move"
    /\ IF f_post[s]
       THEN /\ f_out' = [f_out EXCEPT ![s] = "post"]
            /\ f_post' = [f_post EXCEPT ![s] = FALSE]
            /\ wpc' = [wpc EXCEPT ![s] = "unlink"]
       ELSE /\ wpc' = [wpc EXCEPT ![s] = "fin1"]
            /\ UNCHANGED <<f_out, f_post>>
    /\ UNCHANGED <<ctlVars, cam, recVars, procVars, buffer_file, files_to_merge,
                   merge_result, saved, f_pre, f_list, f_h264, bufVars>>

\* _merge_video_files, lines 848-868: the concat list is written and the
\* pre-roll mp4 is re-wrapped as h264 (15 s timeout)
MergeWriteList(s) ==
    /\ wpc[s] = "mlist"
    /\ f_list' = [f_list EXCEPT ![s] = TRUE]
    /\ \E extract \in {"done", "nothing", "timeout"} :
         IF ~f_pre[s]
         THEN wpc' = [wpc EXCEPT ![s] = "mrun"]
              /\ UNCHANGED <<f_h264, merge_result>>
         ELSE IF extract = "timeout"
         THEN \* TimeoutExpired is caught at line 929: return False
              /\ merge_result' = [merge_result EXCEPT ![s] = "False"]
              /\ wpc' = [wpc EXCEPT ![s] = "unlink"]
              /\ UNCHANGED f_h264
         ELSE /\ f_h264' = [f_h264 EXCEPT ![s] = (extract = "done")]
              /\ wpc' = [wpc EXCEPT ![s] = "mrun"]
              /\ UNCHANGED merge_result
    /\ UNCHANGED <<ctlVars, cam, recVars, procVars, buffer_file, files_to_merge,
                   saved, f_pre, f_post, f_out, bufVars>>

\* _merge_video_files, lines 870-931: the concat run (60 s timeout), removal
\* of the list and the intermediate h264, and the returned verdict
MergeRun(s) ==
    /\ wpc[s] = "mrun"
    /\ \E run \in {"ok", "nonzero", "timeout"}, left \in {"absent", "partial"} :
         /\ f_out' = [f_out EXCEPT ![s] =
                        IF run = "ok" THEN "merged"
                        ELSE IF run = "timeout" THEN "partial" ELSE left]
         /\ IF run = "timeout" \/ ~f_list[s]
            THEN \* TimeoutExpired, or list_file.unlink() raising: return False
                 /\ merge_result' = [merge_result EXCEPT ![s] = "False"]
                 /\ UNCHANGED <<f_list, f_h264>>
            ELSE /\ f_list' = [f_list EXCEPT ![s] = FALSE]
                 /\ f_h264' = [f_h264 EXCEPT ![s] = FALSE]
                 /\ merge_result' = [merge_result EXCEPT ![s] =
                                       IF run = "ok" THEN "True" ELSE "False"]
    /\ wpc' = [wpc EXCEPT ![s] = "unlink"]
    /\ UNCHANGED <<ctlVars, cam, recVars, procVars, buffer_file, files_to_merge,
                   saved, f_pre, f_post, bufVars>>

\* lines 818-824: the temp post clip and the pre-roll are deleted whatever
\* _merge_video_files returned; "Recording saved" is printed
WorkerUnlink(s) ==
    /\ wpc[s] = "unlink"
    /\ f_post' = [f_post EXCEPT ![s] = FALSE]
    /\ f_pre' = [f_pre EXCEPT ![s] = IF buffer_file[s] THEN FALSE ELSE f_pre[s]]
    /\ saved' = [saved EXCEPT ![s] = TRUE]
    /\ wpc' = [wpc EXCEPT ![s] = "fin1"]
    /\ UNCHANGED <<ctlVars, cam, recVars, procVars, buffer_file, files_to_merge,
                   merge_result, f_out, f_list, f_h264, bufVars>>

\* a worker whose finally leaves is_recording set
WorkerFinally1Keeps(s) ==
    /\ wpc[s] = "fin1"
    /\ wpc' = [wpc EXCEPT ![s] = "fin2"]
    /\ UNCHANGED <<ctlVars, cam, is_recording, recording_process,
                   current_recording_path,
                   current_temp_files, merge_thread, nsessions, conflicts, checked,
                   procVars, buffer_file, files_to_merge, merge_result, saved,
                   fileVars, bufVars>>

\* line 831, finally: self.is_recording = False
WorkerFinally1(s) ==
    /\ wpc[s] = "fin1"
    /\ is_recording' = FALSE
    /\ wpc' = [wpc EXCEPT ![s] = "fin2"]
    /\ UNCHANGED <<ctlVars, cam, recording_process, current_recording_path,
                   current_temp_files, merge_thread, nsessions, conflicts, checked,
                   procVars, buffer_file, files_to_merge, merge_result, saved,
                   fileVars, bufVars>>

\* line 832: self.current_recording_path = None
WorkerFinally2(s) ==
    /\ wpc[s] = "fin2"
    /\ current_recording_path' = 0
    /\ wpc' = [wpc EXCEPT ![s] = "fin3"]
    /\ UNCHANGED <<ctlVars, cam, is_recording, recording_process,
                   current_temp_files, merge_thread, nsessions, conflicts, checked,
                   procVars, buffer_file, files_to_merge, merge_result, saved,
                   fileVars, bufVars>>

\* line 833: self.current_temp_files.clear(); the thread ends
WorkerFinally3(s) ==
    /\ wpc[s] = "fin3"
    /\ current_temp_files' = {}
    /\ wpc' = [wpc EXCEPT ![s] = "done"]
    /\ UNCHANGED <<ctlVars, cam, is_recording, recording_process,
                   current_recording_path, merge_thread, nsessions, conflicts, checked,
                   procVars, buffer_file, files_to_merge, merge_result, saved,
                   fileVars, bufVars>>

----------------------------------------------------------------------------
(* Shutdown: stop(), stop_recording(), the cleanups and the signal handler *)

\* MotionDetectionSystem.stop, lines 1233-1237
Stop ==
    /\ pc = "stop"
    /\ running' = FALSE
    /\ StopStream
    /\ pc' = "stop_rec"
    /\ UNCHANGED <<stack, unwind, signalled, events, video_path, recVars, procVars,
                   wrkVars, fileVars, bufVars>>

\* stop, line 1241: the recorder is stopped only when is_recording is set
StopNeedsStopRecording == is_recording

\* stop, lines 1239-1242
StopRecorder ==
    /\ pc = "stop_rec"
    /\ IF StopNeedsStopRecording
       THEN pc' = "kill" /\ stack' = <<"stop_check">> \o stack
       ELSE pc' = "stop_buf" /\ UNCHANGED stack
    /\ UNCHANGED <<unwind, signalled, events, running, video_path, cam, recVars,
                   procVars, wrkVars, fileVars, bufVars>>

\* VideoRecorder.stop_recording, lines 950-961: SIGTERM, then SIGKILL
StopRecordingKill ==
    /\ pc = "kill"
    /\ proc' = IF recording_process # 0 /\ proc[recording_process] = "alive"
               THEN [proc EXCEPT ![recording_process] = "failed"]
               ELSE proc
    /\ pc' = "join"
    /\ UNCHANGED <<stack, unwind, signalled, events, running, video_path, cam, recVars,
                   opened, wrkVars, fileVars, bufVars>>

\* stop_recording, lines 964-971: join(timeout=3) returns with the worker
\* finished or not; then is_recording = False
StopRecordingJoin ==
    /\ pc = "join"
    /\ is_recording' = FALSE
    /\ Return
    /\ UNCHANGED <<unwind, signalled, events, running, video_path, cam,
                   recording_process, current_recording_path, current_temp_files,
                   merge_thread, nsessions, conflicts, checked, procVars,
                   wrkVars, fileVars, bufVars>>

\* what check_and_cleanup_recording can find of an existing file: under 1024
\* bytes; ffprobe returning non-zero; ffprobe returning zero; ffprobe running
\* beyond its 5 s timeout; no ffprobe on the machine
CheckFindings == {"small", "corrupt", "valid", "timeout", "unverified"}

\* lines 991-999 and 1012-1020: the two cases in which the file is unlinked
CheckDeletes(found) == found \in {"small", "corrupt"}

\* the value returned: True at lines 1026 and 1037, False elsewhere
CheckAccepts(found) == found \in {"valid", "unverified"}

\* VideoRecorder.check_and_cleanup_recording on the current path: without a
\* path or with a missing file the path is only forgotten
CheckAndCleanupRecording ==
    /\ current_recording_path' = 0
    /\ IF current_recording_path = 0 \/ f_out[current_recording_path] = "absent"
       THEN UNCHANGED <<f_out, checked>>
       ELSE \E found \in CheckFindings :
              /\ f_out' = IF CheckDeletes(found)
                          THEN [f_out EXCEPT ![current_recording_path] = "absent"]
                          ELSE f_out
              /\ checked' = [found |-> found,
                             ok |-> CheckAccepts(found),
                             deleted |-> f_out'[current_recording_path] = "absent"]

\* VideoRecorder.cleanup_temp_files: the tracked temp files, every
\* temp_*.h264 and every concat_*.txt under output_dir are deleted
CleanupTempFiles ==
    /\ f_post' = [s \in Sessions |-> FALSE]
    /\ f_list' = [s \in Sessions |-> FALSE]
    /\ current_temp_files' = {}

\* stop, lines 1243-1245
StopCheck ==
    /\ pc = "stop_check"
    /\ CheckAndCleanupRecording
    /\ pc' = "stop_buf"
    /\ UNCHANGED <<stack, unwind, signalled, events, running, video_path, cam,
                   is_recording, recording_process, current_temp_files,
                   merge_thread, nsessions, conflicts, procVars, wrkVars, f_pre,
                   f_post,
                   f_list, f_h264, bufVars>>

\* stop, line 1248: cleanup_buffer removes buffer_dir and empties the buffer
StopCleanupBuffer ==
    /\ pc = "stop_buf"
    /\ f_pre' = [s \in Sessions |-> FALSE]
    /\ f_h264' = [s \in Sessions |-> FALSE]
    /\ frame_buffer' = <<>>
    /\ pc' = "stop_tmp"
    /\ UNCHANGED <<stack, unwind, signalled, events, running, video_path, cam, recVars,
                   procVars, wrkVars, f_post, f_out, f_list, pre_buffer, pushed,
                   buffer_clip>>

\* stop, lines 1251-1253
StopCleanupTemp ==
    /\ pc = "stop_tmp"
    /\ CleanupTempFiles
    /\ Return
    /\ UNCHANGED <<unwind, signalled, events, running, video_path, cam, is_recording,
                   recording_process, current_recording_path, merge_thread,
                   nsessions, conflicts, checked, procVars, wrkVars, f_pre,
                   f_out, f_h264, bufVars>>

\* The main thread is inside a try whose handler is a bare "except:", which
\* also catches the SystemExit of sys.exit(0): stop_stream with a live process
\* (lines 249-257), stop_recording with a live process (lines 950-961),
\* cleanup_buffer (lines 679-683) and the decoding of a frame in get_frame
\* (lines 299-303).
InBareTry ==
    \/ pc \in {"trig_stop", "stop"} /\ cam = "alive"
    \/ pc = "kill" /\ recording_process # 0 /\ proc[recording_process] = "alive"
    \/ pc = "stop_buf"
    \/ pc = "loop" /\ running /\ IsStreaming

\* where the main thread goes on once that handler has swallowed the exit
ResumeAt ==
    CASE pc = "trig_stop" -> "sr_begin"
      [] pc = "stop" -> "stop_rec"
      [] pc = "kill" -> "join"
      [] pc = "stop_buf" -> "stop_tmp"
      [] OTHER -> "loop"

\* SIGINT or SIGTERM arrives: _signal_handler runs on the main thread, on top
\* of what it was doing, lines 1172-1182.  Its sys.exit(0) will unwind the
\* main thread, through the finally of the loop when it is inside the loop's
\* try, unless the interrupted code is inside a bare except.
Signal ==
    /\ ~signalled
    /\ pc # "exited"
    /\ signalled' = TRUE
    /\ \E swallowed \in BOOLEAN :
         /\ swallowed => InBareTry
         /\ unwind' = IF swallowed THEN "resume"
                       ELSE IF pc \in TryLabels THEN "finally" ELSE "none"
         /\ stack' = IF swallowed THEN <<"h_check", ResumeAt>> \o stack
                      ELSE <<"h_check">>
    /\ pc' = "kill"
    /\ UNCHANGED <<running, video_path, events, cam, recVars, procVars, wrkVars,
                   fileVars, bufVars>>

\* _signal_handler, lines 1183-1186
HandlerCheck ==
    /\ pc = "h_check"
    /\ IF current_recording_path # 0
       THEN CheckAndCleanupRecording
       ELSE UNCHANGED <<current_recording_path, f_out, checked>>
    /\ pc' = "h_tmp"
    /\ UNCHANGED <<stack, unwind, signalled, events, running, video_path, cam,
                   is_recording, recording_process, current_temp_files,
                   merge_thread, nsessions, conflicts, procVars, wrkVars, f_pre,
                   f_post,
                   f_list, f_h264, bufVars>>

\* _signal_handler, lines 1188-1193: cleanup_temp_files, then stop()
HandlerCleanupTemp ==
    /\ pc = "h_tmp"
    /\ CleanupTempFiles
    /\ pc' = "stop"
    /\ stack' = <<"h_exit">> \o stack
    /\ UNCHANGED <<unwind, signalled, events, running, video_path, cam, is_recording,
                   recording_process, current_recording_path, merge_thread,
                   nsessions, conflicts, checked, procVars, wrkVars, f_pre,
                   f_out, f_h264, bufVars>>

\* _signal_handler, lines 1195-1202: the threads are joined for 1 s each and
\* sys.exit(0) unwinds; inside the loop's try, its finally runs stop() again;
\* inside a bare except the exit is swallowed and the main thread goes on
HandlerExit ==
    /\ pc = "h_exit"
    /\ IF unwind = "resume"
       THEN Return /\ unwind' = "none"
       ELSE IF unwind = "finally"
       THEN pc' = "stop" /\ stack' = <<"exited">> /\ unwind' = "none"
       ELSE pc' = "exited" /\ UNCHANGED <<stack, unwind>>
    /\ UNCHANGED <<signalled, events, running, video_path, cam, recVars, procVars,
                   wrkVars, fileVars, bufVars>>

\* MotionDetectionSystem.__init__ with VideoRecorder.__init__ and
\* CameraStreamManager.__init__
SysInit(limit) ==
    /\ session_limit = limit
    /\ pc = "start"
    /\ stack = <<>>
    /\ unwind = "none"
    /\ signalled = FALSE
    /\ running = FALSE
    /\ video_path = 0
    /\ events = <<>>
    /\ cam = "None"
    /\ is_recording = FALSE
    /\ recording_process = 0
    /\ current_recording_path = 0
    /\ current_temp_files = {}
    /\ merge_thread = 0
    /\ nsessions = 0
    /\ conflicts = 0
    /\ checked = [found |-> "none", ok |-> FALSE, deleted |-> FALSE]
    /\ proc = [s \in Sessions |-> "none"]
    /\ opened = [s \in Sessions |-> FALSE]
    /\ wpc = [s \in Sessions |-> "idle"]
    /\ buffer_file = [s \in Sessions |-> FALSE]
    /\ files_to_merge = [s \in Sessions |-> 0]
    /\ merge_result = [s \in Sessions |-> "none"]
    /\ saved = [s \in Sessions |-> FALSE]
    /\ f_pre = [s \in Sessions |-> FALSE]
    /\ f_post = [s \in Sessions |-> FALSE]
    /\ f_out = [s \in Sessions |-> "absent"]
    /\ f_list = [s \in Sessions |-> FALSE]
    /\ f_h264 = [s \in Sessions |-> FALSE]

----------------------------------------------------------------------------
(* UnifiedCameraManager, src/reference/camera_manager.py *)

Threads == 1..MaxThreads
Cameras == {0, 1}
\* class CameraMode
CameraMode == {"idle", "streaming", "recording", "dual_streaming"}

\* the public operations that take operation_lock, with their arguments
PublicCalls ==
    ({"initialize_camera", "switch_mode"} \X Cameras \X CameraMode)
    \cup ({"start_recording", "stop_recording"} \X Cameras \X {"idle"})
    \cup {<<"cleanup_all", 0, "idle">>}

\* a call that has reached its "with self.operation_lock"
Frame(op, camera_id, mode) ==
    [op |-> op, camera_id |-> camera_id, mode |-> mode, at |-> "lock"]

\* the innermost call of thread t
Top(t) == ucm_calls[t][Len(ucm_calls[t])]
Running(t, op) ==
    /\ ucm_calls[t] # <<>>
    /\ Top(t).op = op
    /\ Top(t).at = "body"

\* the manager's three dictionaries
Manager == [cameras |-> cameras, camera_modes |-> camera_modes,
            recording_handles |-> recording_handles]
SetManager(u) ==
    /\ cameras' = u.cameras
    /\ camera_modes' = u.camera_modes
    /\ recording_handles' = u.recording_handles

\* what the Picamera2 calls of cleanup_camera do: all succeed, stop_encoder
\* raises, or stop / close raises
Outcomes == {"ok", "encoder_raises", "stop_raises"}

\* cleanup_camera, lines 137-163; it takes no lock and swallows what is raised
CleanupCamera(u, camera_id, outcome) ==
    IF camera_id \notin u.cameras THEN u
    ELSE IF outcome = "encoder_raises" /\ camera_id \in u.recording_handles THEN u
    ELSE IF outcome = "stop_raises"
    THEN [u EXCEPT !.recording_handles = @ \ {camera_id}]
    ELSE [cameras |-> u.cameras \ {camera_id},
          camera_modes |-> [u.camera_modes EXCEPT ![camera_id] = "absent"],
          recording_handles |-> u.recording_handles \ {camera_id}]

\* the calls left on the stack st of a thread when the call above them has
\* returned result: switch_mode and stop_recording return what their inner
\* call returned, start_recording returns False on False and goes on
\* otherwise
RECURSIVE Unwind(_, _)
Unwind(st, result) ==
    IF st = <<>> THEN st
    ELSE IF st[Len(st)].op = "start_recording" /\ result
    THEN [st EXCEPT ![Len(st)].at = "resumed"]
    ELSE Unwind(SubSeq(st, 1, Len(st) - 1), result)

\* a return out of "with self.operation_lock": the lock is released
UcmReturn(t, result) ==
    /\ operation_lock' = 0
    /\ ucm_calls' = [ucm_calls EXCEPT
                       ![t] = Unwind(SubSeq(@, 1, Len(@) - 1), result)]

\* a call made from inside "with self.operation_lock": the lock stays held
UcmNested(t, op, camera_id, mode) ==
    /\ ucm_calls' = [ucm_calls EXCEPT
                       ![t] = Append([@ EXCEPT ![Len(@)].at = "nested"],
                                     Frame(op, camera_id, mode))]
    /\ UNCHANGED operation_lock

\* a thread calls a public operation
UcmCall(t) ==
    /\ ucm_calls[t] = <<>>
    /\ \E call \in PublicCalls :
         ucm_calls' = [ucm_calls EXCEPT
                         ![t] = <<Frame(call[1], call[2], call[3])>>]
    /\ UNCHANGED <<operation_lock, cameras, camera_modes, recording_handles>>

\* threading.Lock, line 68: acquired only while nobody holds it
Acquirable(t) == operation_lock = 0

\* "with self.operation_lock", lines 74, 167, 208, 246, 281
UcmAcquire(t) ==
    /\ ucm_calls[t] # <<>>
    /\ Top(t).at = "lock"
    /\ Acquirable(t)
    /\ operation_lock' = t
    /\ ucm_calls' = [ucm_calls EXCEPT ![t][Len(ucm_calls[t])].at = "body"]
    /\ UNCHANGED <<cameras, camera_modes, recording_handles>>

\* initialize_camera, lines 72-135
UcmInitializeCamera(t) ==
    /\ Running(t, "initialize_camera")
    /\ \E outcome \in Outcomes, created \in BOOLEAN :
         LET u == CleanupCamera(Manager, Top(t).camera_id, outcome)
         IN  /\ IF created
                THEN SetManager([u EXCEPT
                        !.cameras = @ \cup {Top(t).camera_id},
                        !.camera_modes[Top(t).camera_id] = Top(t).mode])
                ELSE SetManager(u)
             /\ UcmReturn(t, created)

\* switch_mode, lines 165-184
UcmSwitchMode(t) ==
    /\ Running(t, "switch_mode")
    /\ LET camera_id == Top(t).camera_id
           current_mode == IF camera_modes[camera_id] = "absent" THEN "idle"
                           ELSE camera_modes[camera_id]
       IN  IF current_mode = Top(t).mode
           THEN /\ UcmReturn(t, TRUE)
                /\ UNCHANGED <<cameras, camera_modes, recording_handles>>
           ELSE \E outcome \in Outcomes :
                  /\ SetManager(CleanupCamera(Manager, camera_id, outcome))
                  /\ UcmNested(t, "initialize_camera", camera_id, Top(t).mode)

\* start_recording, lines 206-242
UcmStartRecording(t) ==
    /\ ucm_calls[t] # <<>>
    /\ Top(t).op = "start_recording"
    /\ Top(t).at \in {"body", "resumed"}
    /\ LET camera_id == Top(t).camera_id
       IN  IF Top(t).at = "body" /\ camera_modes[camera_id] # "recording"
           THEN /\ UcmNested(t, "switch_mode", camera_id, "recording")
                /\ UNCHANGED <<cameras, camera_modes, recording_handles>>
           ELSE \E started \in BOOLEAN :
                  /\ started => camera_id \in cameras
                  /\ recording_handles' =
                        IF started THEN recording_handles \cup {camera_id}
                        ELSE recording_handles
                  /\ UcmReturn(t, started)
                  /\ UNCHANGED <<cameras, camera_modes>>

\* stop_recording, lines 244-265
UcmStopRecording(t) ==
    /\ Running(t, "stop_recording")
    /\ LET camera_id == Top(t).camera_id
       IN  IF camera_id \notin recording_handles
           THEN /\ UcmReturn(t, FALSE)
                /\ UNCHANGED <<cameras, camera_modes, recording_handles>>
           ELSE \E stopped \in BOOLEAN :
                  IF stopped
                  THEN /\ recording_handles' = recording_handles \ {camera_id}
                       /\ UcmNested(t, "switch_mode", camera_id, "streaming")
                       /\ UNCHANGED <<cameras, camera_modes>>
                  ELSE /\ UcmReturn(t, FALSE)
                       /\ UNCHANGED <<cameras, camera_modes, recording_handles>>

\* cleanup_all, lines 279-284
UcmCleanupAll(t) ==
    /\ Running(t, "cleanup_all")
    /\ \E o0 \in Outcomes, o1 \in Outcomes :
         SetManager(CleanupCamera(CleanupCamera(Manager, 0, o0), 1, o1))
    /\ UcmReturn(t, TRUE)

\* UnifiedCameraManager.__init__, lines 51-70
UcmInit ==
    /\ operation_lock = 0
    /\ cameras = {}
    /\ camera_modes = [c \in Cameras |-> "absent"]
    /\ recording_handles = {}
    /\ ucm_calls = [t \in Threads |-> <<>>]

----------------------------------------------------------------------------
(* Specifications *)

InitDet ==
    /\ \E type \in {"simple", "hand_wave"} : DetInit(type)
    /\ BufInit(0)
    /\ SysInit(0)
    /\ UcmInit
    /\ MonInit(RunConfig(0))

NextDet ==
    \/ (\E cp \in ChangedPixels : SimpleDetect(cp)) /\ UNCHANGED <<bufVars, sysVars, monVars, buffer>>
    \/ (\E h \in HandXs \cup {NoHand} : HandWaveDetect(h)) /\ UNCHANGED <<bufVars, sysVars, monVars, buffer>>
    \/ DetReset /\ UNCHANGED <<bufVars, sysVars, monVars, buffer>>
    \/ Tick /\ UNCHANGED <<bufVars, sysVars, monVars, buffer>>

SpecDet == InitDet /\ [][NextDet]_vars

InitBuf ==
    /\ DetInit("simple")
    /\ \E pre \in 0..MaxPreBuffer : BufInit(pre) /\ MonInit(RunConfig(pre))
    /\ SysInit(0)
    /\ UcmInit

NextBuf ==
    \/ (\E f \in FrameContents : AddFrameToBuffer(f)) /\ UNCHANGED <<detVars, sysVars, monVars, buffer>>
    \/ SaveBufferToFile /\ UNCHANGED <<detVars, sysVars, monVars, buffer>>

SpecBuf == InitBuf /\ [][NextBuf]_vars

\* the recorder's buffer of a system built from any Config
InitCfg ==
    /\ DetInit("simple")
    /\ \E cfg \in ConfigDicts : MonInit(cfg) /\ BufInit(cfg.pre_buffer)
    /\ SysInit(0)
    /\ UcmInit

NextCfg ==
    \/ AddFrameToBuffer(0) /\ UNCHANGED <<detVars, sysVars, monVars, buffer>>
    \/ SaveBufferToFile /\ UNCHANGED <<detVars, sysVars, monVars, buffer>>

SpecCfg == InitCfg /\ [][NextCfg]_vars

\* the frame source alone, its methods called in any order
InitCam ==
    /\ DetInit("simple")
    /\ BufInit(0)
    /\ SysInit(0)
    /\ UcmInit
    /\ MonInit(RunConfig(0))

NextCam ==
    \/ CamStartStream /\ UNCHANGED <<detVars, session_limit, ucmVars>>
    \/ CamStopStream /\ UNCHANGED <<detVars, session_limit, ucmVars>>
    \/ CamGetFrame /\ UNCHANGED <<detVars, session_limit, ucmVars>>
    \/ CamDies /\ UNCHANGED <<detVars, monVars, buffer, session_limit, ucmVars>>

SpecCam == InitCam /\ [][NextCam]_vars

Init ==
    /\ DetInit("simple")
    /\ BufInit(PRE_BUFFER_DURATION)
    /\ SysInit(MaxSessions)
    /\ UcmInit
    /\ MonInit(RunConfig(PRE_BUFFER_DURATION))

\* the steps of the program while no signal is delivered
NextRun ==
    \/ Start /\ UNCHANGED <<detVars, monVars, buffer, session_limit, ucmVars>>
    \/ CamDies /\ UNCHANGED <<detVars, monVars, buffer, session_limit, ucmVars>>
    \/ LoopIter /\ UNCHANGED <<detVars, monVars, buffer, session_limit, ucmVars>>
    \/ TriggerStopStream /\ UNCHANGED <<detVars, monVars, session_limit, ucmVars>>
    \/ StartRecordingBegin /\ UNCHANGED <<detVars, monVars, buffer, session_limit, ucmVars>>
    \/ StartRecordingSpawn /\ UNCHANGED <<detVars, monVars, buffer, session_limit, ucmVars>>
    \/ TriggerSleep /\ UNCHANGED <<detVars, monVars, buffer, session_limit, ucmVars>>
    \/ RestartStop /\ UNCHANGED <<detVars, monVars, session_limit, ucmVars>>
    \/ RestartStart /\ UNCHANGED <<detVars, monVars, buffer, session_limit, ucmVars>>
    \/ (\E s \in Sessions : RecProcOpen(s)) /\ UNCHANGED <<detVars, monVars, buffer, session_limit, ucmVars>>
    \/ (\E s \in Sessions : RecProcExit(s)) /\ UNCHANGED <<detVars, monVars, buffer, session_limit, ucmVars>>
    \/ (\E s \in Sessions : WorkerWait(s)) /\ UNCHANGED <<detVars, monVars, buffer, session_limit, ucmVars>>
    \/ (\E s \in Sessions : WorkerCheck(s)) /\ UNCHANGED <<detVars, monVars, buffer, session_limit, ucmVars>>
    \/ (\E s \in Sessions : WorkerMove(s)) /\ UNCHANGED <<detVars, monVars, buffer, session_limit, ucmVars>>
    \/ (\E s \in Sessions : MergeWriteList(s)) /\ UNCHANGED <<detVars, monVars, buffer, session_limit, ucmVars>>
    \/ (\E s \in Sessions : MergeRun(s)) /\ UNCHANGED <<detVars, monVars, buffer, session_limit, ucmVars>>
    \/ (\E s \in Sessions : WorkerUnlink(s)) /\ UNCHANGED <<detVars, monVars, buffer, session_limit, ucmVars>>
    \/ (\E s \in Sessions : WorkerFinally1(s)) /\ UNCHANGED <<detVars, monVars, buffer, session_limit, ucmVars>>
    \/ (\E s \in Sessions : WorkerFinally2(s)) /\ UNCHANGED <<detVars, monVars, buffer, session_limit, ucmVars>>
    \/ (\E s \in Sessions : WorkerFinally3(s)) /\ UNCHANGED <<detVars, monVars, buffer, session_limit, ucmVars>>
    \/ Stop /\ UNCHANGED <<detVars, monVars, session_limit, ucmVars>>
    \/ StopRecorder /\ UNCHANGED <<detVars, monVars, buffer, session_limit, ucmVars>>
    \/ StopRecordingKill /\ UNCHANGED <<detVars, monVars, buffer, session_limit, ucmVars>>
    \/ StopRecordingJoin /\ UNCHANGED <<detVars, monVars, buffer, session_limit, ucmVars>>
    \/ StopCheck /\ UNCHANGED <<detVars, monVars, buffer, session_limit, ucmVars>>
    \/ StopCleanupBuffer /\ UNCHANGED <<detVars, monVars, buffer, session_limit, ucmVars>>
    \/ StopCleanupTemp /\ UNCHANGED <<detVars, monVars, buffer, session_limit, ucmVars>>

Next ==
    \/ NextRun
    \/ Signal /\ UNCHANGED <<detVars, monVars, buffer, session_limit, ucmVars>>
    \/ HandlerCheck /\ UNCHANGED <<detVars, monVars, buffer, session_limit, ucmVars>>
    \/ HandlerCleanupTemp /\ UNCHANGED <<detVars, monVars, buffer, session_limit, ucmVars>>
    \/ HandlerExit /\ UNCHANGED <<detVars, monVars, buffer, session_limit, ucmVars>>

Spec == Init /\ [][Next]_vars

\* the controller with the detector in its loop, no signal being delivered
NextCtl ==
    \/ Start /\ UNCHANGED <<detVars, monVars, buffer, session_limit, ucmVars>>
    \/ CamDies /\ UNCHANGED <<detVars, monVars, buffer, session_limit, ucmVars>>
    \/ LoopDetect /\ UNCHANGED <<monVars, buffer, session_limit, ucmVars>>
    \/ Tick /\ UNCHANGED <<bufVars, sysVars, monVars, buffer>>
    \/ TriggerStopStream /\ UNCHANGED <<detVars, monVars, session_limit, ucmVars>>
    \/ StartRecordingBegin /\ UNCHANGED <<detVars, monVars, buffer, session_limit, ucmVars>>
    \/ StartRecordingSpawn /\ UNCHANGED <<detVars, monVars, buffer, session_limit, ucmVars>>
    \/ TriggerSleep /\ UNCHANGED <<detVars, monVars, buffer, session_limit, ucmVars>>
    \/ RestartStop /\ UNCHANGED <<detVars, monVars, session_limit, ucmVars>>
    \/ RestartStart /\ UNCHANGED <<detVars, monVars, buffer, session_limit, ucmVars>>
    \/ (\E s \in Sessions : RecProcOpen(s)) /\ UNCHANGED <<detVars, monVars, buffer, session_limit, ucmVars>>
    \/ (\E s \in Sessions : RecProcExit(s)) /\ UNCHANGED <<detVars, monVars, buffer, session_limit, ucmVars>>
    \/ (\E s \in Sessions : WorkerWait(s)) /\ UNCHANGED <<detVars, monVars, buffer, session_limit, ucmVars>>
    \/ (\E s \in Sessions : WorkerCheck(s)) /\ UNCHANGED <<detVars, monVars, buffer, session_limit, ucmVars>>
    \/ (\E s \in Sessions : WorkerMove(s)) /\ UNCHANGED <<detVars, monVars, buffer, session_limit, ucmVars>>
    \/ (\E s \in Sessions : MergeWriteList(s)) /\ UNCHANGED <<detVars, monVars, buffer, session_limit, ucmVars>>
    \/ (\E s \in Sessions : MergeRun(s)) /\ UNCHANGED <<detVars, monVars, buffer, session_limit, ucmVars>>
    \/ (\E s \in Sessions : WorkerUnlink(s)) /\ UNCHANGED <<detVars, monVars, buffer, session_limit, ucmVars>>
    \/ (\E s \in Sessions : WorkerFinally1(s)) /\ UNCHANGED <<detVars, monVars, buffer, session_limit, ucmVars>>
    \/ (\E s \in Sessions : WorkerFinally2(s)) /\ UNCHANGED <<detVars, monVars, buffer, session_limit, ucmVars>>
    \/ (\E s \in Sessions : WorkerFinally3(s)) /\ UNCHANGED <<detVars, monVars, buffer, session_limit, ucmVars>>
    \/ Stop /\ UNCHANGED <<detVars, monVars, session_limit, ucmVars>>
    \/ StopRecorder /\ UNCHANGED <<detVars, monVars, buffer, session_limit, ucmVars>>
    \/ StopRecordingKill /\ UNCHANGED <<detVars, monVars, buffer, session_limit, ucmVars>>
    \/ StopRecordingJoin /\ UNCHANGED <<detVars, monVars, buffer, session_limit, ucmVars>>
    \/ StopCheck /\ UNCHANGED <<detVars, monVars, buffer, session_limit, ucmVars>>
    \/ StopCleanupBuffer /\ UNCHANGED <<detVars, monVars, buffer, session_limit, ucmVars>>
    \/ StopCleanupTemp /\ UNCHANGED <<detVars, monVars, buffer, session_limit, ucmVars>>

SpecCtl == Init /\ [][NextCtl]_vars

\* the controller with the frame source, the frame counter and the pre-event
\* buffer in its loop, no signal being delivered
NextMon ==
    \/ Start /\ UNCHANGED <<detVars, monVars, buffer, session_limit, ucmVars>>
    \/ CamDies /\ UNCHANGED <<detVars, monVars, buffer, session_limit, ucmVars>>
    \/ LoopFrame /\ UNCHANGED <<detVars, session_limit, ucmVars>>
    \/ TriggerStopStream /\ UNCHANGED <<detVars, monVars, session_limit, ucmVars>>
    \/ StartRecordingBegin /\ UNCHANGED <<detVars, monVars, buffer, session_limit, ucmVars>>
    \/ StartRecordingSpawn /\ UNCHANGED <<detVars, monVars, buffer, session_limit, ucmVars>>
    \/ TriggerSleep /\ UNCHANGED <<detVars, monVars, buffer, session_limit, ucmVars>>
    \/ RestartStop /\ UNCHANGED <<detVars, monVars, session_limit, ucmVars>>
    \/ RestartStart /\ UNCHANGED <<detVars, monVars, buffer, session_limit, ucmVars>>
    \/ (\E s \in Sessions : RecProcOpen(s)) /\ UNCHANGED <<detVars, monVars, buffer, session_limit, ucmVars>>
    \/ (\E s \in Sessions : RecProcExit(s)) /\ UNCHANGED <<detVars, monVars, buffer, session_limit, ucmVars>>
    \/ (\E s \in Sessions : WorkerWait(s)) /\ UNCHANGED <<detVars, monVars, buffer, session_limit, ucmVars>>
    \/ (\E s \in Sessions : WorkerCheck(s)) /\ UNCHANGED <<detVars, monVars, buffer, session_limit, ucmVars>>
    \/ (\E s \in Sessions : WorkerMove(s)) /\ UNCHANGED <<detVars, monVars, buffer, session_limit, ucmVars>>
    \/ (\E s \in Sessions : MergeWriteList(s)) /\ UNCHANGED <<detVars, monVars, buffer, session_limit, ucmVars>>
    \/ (\E s \in Sessions : MergeRun(s)) /\ UNCHANGED <<detVars, monVars, buffer, session_limit, ucmVars>>
    \/ (\E s \in Sessions : WorkerUnlink(s)) /\ UNCHANGED <<detVars, monVars, buffer, session_limit, ucmVars>>
    \/ (\E s \in Sessions : WorkerFinally1(s)) /\ UNCHANGED <<detVars, monVars, buffer, session_limit, ucmVars>>
    \/ (\E s \in Sessions : WorkerFinally2(s)) /\ UNCHANGED <<detVars, monVars, buffer, session_limit, ucmVars>>
    \/ (\E s \in Sessions : WorkerFinally3(s)) /\ UNCHANGED <<detVars, monVars, buffer, session_limit, ucmVars>>
    \/ Stop /\ UNCHANGED <<detVars, monVars, session_limit, ucmVars>>
    \/ StopRecorder /\ UNCHANGED <<detVars, monVars, buffer, session_limit, ucmVars>>
    \/ StopRecordingKill /\ UNCHANGED <<detVars, monVars, buffer, session_limit, ucmVars>>
    \/ StopRecordingJoin /\ UNCHANGED <<detVars, monVars, buffer, session_limit, ucmVars>>
    \/ StopCheck /\ UNCHANGED <<detVars, monVars, buffer, session_limit, ucmVars>>
    \/ StopCleanupBuffer /\ UNCHANGED <<detVars, monVars, buffer, session_limit, ucmVars>>
    \/ StopCleanupTemp /\ UNCHANGED <<detVars, monVars, buffer, session_limit, ucmVars>>

SpecMon == Init /\ [][NextMon]_vars

\* The main thread, when it is not inside the signal handler or stop(): every
\* step of it ends within a bounded time (stop_stream waits 3 s at most, the
\* sleeps are 2 s and post_buffer + 2 s, Popen returns), so it is not held
\* back for ever.
MainThread ==
    \/ LoopIter /\ UNCHANGED <<detVars, monVars, buffer, session_limit, ucmVars>>
    \/ TriggerStopStream /\ UNCHANGED <<detVars, monVars, session_limit, ucmVars>>
    \/ StartRecordingBegin /\ UNCHANGED <<detVars, monVars, buffer, session_limit, ucmVars>>
    \/ StartRecordingSpawn /\ UNCHANGED <<detVars, monVars, buffer, session_limit, ucmVars>>
    \/ TriggerSleep /\ UNCHANGED <<detVars, monVars, buffer, session_limit, ucmVars>>
    \/ RestartStop /\ UNCHANGED <<detVars, monVars, session_limit, ucmVars>>
    \/ RestartStart /\ UNCHANGED <<detVars, monVars, buffer, session_limit, ucmVars>>

SpecLive == Init /\ [][Next]_vars /\ WF_vars(MainThread)

\* The merge worker of session s: a thread of its own, none of whose steps
\* lasts for ever (the wait on the capture process has a timeout of
\* post_buffer + 5 s, the ffmpeg runs of 15 s and 60 s).
Worker(s) ==
    \/ WorkerWait(s) /\ UNCHANGED <<detVars, monVars, buffer, session_limit, ucmVars>>
    \/ WorkerCheck(s) /\ UNCHANGED <<detVars, monVars, buffer, session_limit, ucmVars>>
    \/ WorkerMove(s) /\ UNCHANGED <<detVars, monVars, buffer, session_limit, ucmVars>>
    \/ MergeWriteList(s) /\ UNCHANGED <<detVars, monVars, buffer, session_limit, ucmVars>>
    \/ MergeRun(s) /\ UNCHANGED <<detVars, monVars, buffer, session_limit, ucmVars>>
    \/ WorkerUnlink(s) /\ UNCHANGED <<detVars, monVars, buffer, session_limit, ucmVars>>
    \/ WorkerFinally1(s) /\ UNCHANGED <<detVars, monVars, buffer, session_limit, ucmVars>>
    \/ WorkerFinally2(s) /\ UNCHANGED <<detVars, monVars, buffer, session_limit, ucmVars>>
    \/ WorkerFinally3(s) /\ UNCHANGED <<detVars, monVars, buffer, session_limit, ucmVars>>

\* Spec with the main thread and the merge workers scheduled fairly
SpecFair ==
    /\ Init /\ [][Next]_vars
    /\ WF_vars(MainThread)
    /\ \A s \in Sessions : WF_vars(Worker(s))

\* what no operation of the UnifiedCameraManager changes
progVars == <<detVars, bufVars, ctlVars, cam, recVars, procVars, wrkVars,
              fileVars, session_limit, monVars, buffer>>

InitUcm ==
    /\ DetInit("simple")
    /\ BufInit(0)
    /\ SysInit(0)
    /\ UcmInit
    /\ MonInit(RunConfig(0))

\* the steps of thread t inside the manager
UcmStep(t) ==
    \/ UcmAcquire(t) /\ UNCHANGED progVars
    \/ UcmInitializeCamera(t) /\ UNCHANGED progVars
    \/ UcmSwitchMode(t) /\ UNCHANGED progVars
    \/ UcmStartRecording(t) /\ UNCHANGED progVars
    \/ UcmStopRecording(t) /\ UNCHANGED progVars
    \/ UcmCleanupAll(t) /\ UNCHANGED progVars

NextUcm ==
    \/ (\E t \in Threads : UcmCall(t)) /\ UNCHANGED progVars
    \/ (\E t \in Threads : UcmAcquire(t)) /\ UNCHANGED progVars
    \/ (\E t \in Threads : UcmInitializeCamera(t)) /\ UNCHANGED progVars
    \/ (\E t \in Threads : UcmSwitchMode(t)) /\ UNCHANGED progVars
    \/ (\E t \in Threads : UcmStartRecording(t)) /\ UNCHANGED progVars
    \/ (\E t \in Threads : UcmStopRecording(t)) /\ UNCHANGED progVars
    \/ (\E t \in Threads : UcmCleanupAll(t)) /\ UNCHANGED progVars

\* the manager with every thread that is inside it scheduled, and served by
\* the lock whenever the lock keeps becoming free
SpecUcm ==
    /\ InitUcm /\ [][NextUcm]_vars
    /\ \A t \in Threads : SF_vars(UcmStep(t))

\* the same system followed for one session more, no signal being delivered
InitTwo ==
    /\ DetInit("simple")
    /\ BufInit(PRE_BUFFER_DURATION)
    /\ SysInit(MaxSessions + 1)
    /\ UcmInit
    /\ MonInit(RunConfig(PRE_BUFFER_DURATION))

SpecTwo == InitTwo /\ [][NextRun]_vars

----------------------------------------------------------------------------
(* Claims *)

\* the capture or the merge step of session s is in progress
InProgress(s) ==
    \/ proc[s] = "alive"
    \/ wpc[s] \in {"wait", "check", "move", "mlist", "mrun", "unlink"}

\* stop() or the signal handler has been entered
ShutdownBegun == signalled \/ pc \notin ({"start"} \cup TryLabels)

\* C1: the monitoring capture process and the recorder's post-event capture
\* process are never alive at the same time.
C1_CameraExclusive ==
    ~(cam = "alive" /\ recording_process # 0 /\ proc[recording_process] = "alive")

\* C2: no two sessions have their capture or merge step in progress at the
\* same time.
C2_OneSessionInProgress ==
    \A s, t \in Sessions : s # t => ~(InProgress(s) /\ InProgress(t))

\* C3: start_recording called while is_recording is set returns None and
\* changes nothing of the recorder, the capture processes, the merge workers
\* and the files.
C3_RefusedCallLeavesSession ==
    [][(pc = "sr_begin" /\ is_recording /\ pc' # pc /\ signalled' = signalled)
         => /\ pc' = "rs_stop"
            /\ video_path' = 0
            /\ UNCHANGED <<is_recording, recording_process,
                           current_recording_path, current_temp_files,
                           merge_thread, nsessions, procVars, wrkVars,
                           fileVars>>]_vars

\* a call has just been refused while the session's worker is still at work
C3_Witness ==
    /\ pc = "rs_stop"
    /\ video_path = 0
    /\ is_recording
    /\ nsessions >= 1
    /\ InProgress(nsessions)
    /\ current_recording_path = nsessions

\* C4: a step of the merge worker of an earlier session changes none of
\* is_recording, current_recording_path and current_temp_files once the next
\* session has begun.
C4_WorkerLeavesNextSession ==
    [][\A s \in Sessions :
          (wpc'[s] # wpc[s] /\ s < nsessions)
            => UNCHANGED <<is_recording, current_recording_path,
                           current_temp_files>>]_vars

\* C5: for both detector variants, every detect() call entered while the
\* detector is not ready returns False, the call that absorbs the last warm-up
\* sample included, and the detector is ready only with the full warm-up count
\* of samples absorbed.
C5_NoMotionBeforeReady ==
    /\ ~was_ready => motion_detected = FALSE
    /\ background_ready => background_frames = Warmup(detector_type)

\* the call that absorbed the last warm-up sample has just returned
C5_Witness ==
    /\ motion_detected = FALSE
    /\ ~was_ready
    /\ background_ready
    /\ background_frames = Warmup(detector_type)

\* C6: without a reset() in between, two detect() calls that return True are
\* at least COOLDOWN seconds apart.
C6_CooldownBetweenTriggers ==
    \A i \in 2..Len(trigger_times) :
        trigger_times[i] - trigger_times[i-1] >= COOLDOWN

\* a second trigger has been accepted once the cooldown had elapsed
C6_Witness ==
    /\ Len(trigger_times) >= 2
    /\ motion_detected = TRUE
    /\ now = trigger_times[Len(trigger_times)]
    /\ now - trigger_times[Len(trigger_times) - 1] = COOLDOWN

LastN(q, n) == SubSeq(q, Len(q) - n + 1, Len(q))

\* C7: the pre-event buffer never holds more than its capacity, and it holds
\* exactly the most recent min(capacity, pushes) frames in insertion order.
C7_RingBufferKeepsNewest ==
    LET cap == BufferMaxlen(pre_buffer)
        n == IF Len(pushed) < cap THEN Len(pushed) ELSE cap
    IN  /\ Len(frame_buffer) <= cap
        /\ frame_buffer = LastN(pushed, n)

\* capacity + k pushes with k >= 2 have been made into a buffer of capacity > 0
C7_Witness ==
    LET cap == BufferMaxlen(pre_buffer)
    IN  /\ cap > 0
        /\ Len(pushed) >= cap + 2
        /\ Len(frame_buffer) = cap
        /\ frame_buffer[1] # frame_buffer[cap]

\* C8: a session that had a pre-roll and a post clip and whose merge failed
\* ends with the post clip as its output file.
C8_MergeFailureKeepsPostClip ==
    \A s \in Sessions :
        (wpc[s] = "done" /\ files_to_merge[s] = 2 /\ merge_result[s] = "False"
           /\ ~ShutdownBegun)
          => f_out[s] = "post"

\* C9: a session without a pre-roll whose post clip existed when the worker
\* looked for it ends, unless a shutdown interferes, with the post clip as the
\* file at its output path.
C9_NoPreRollKeepsPostClip ==
    \A s \in Sessions :
        (wpc[s] = "done" /\ ~buffer_file[s] /\ files_to_merge[s] >= 1
           /\ ~ShutdownBegun)
          => (f_out[s] = "post" /\ saved[s] /\ ~f_post[s])

\* a session without a pre-roll has ended and the controller is monitoring
C9_Witness ==
    \E s \in Sessions :
        /\ wpc[s] = "done"
        /\ ~buffer_file[s]
        /\ files_to_merge[s] = 1
        /\ f_out[s] = "post"
        /\ pc = "loop" /\ running /\ cam = "alive"

\* C10: once the program has left through stop() or the signal handler, no
\* capture subprocess is alive.
C10_NoProcessAfterShutdown ==
    pc = "exited" => (cam # "alive" /\ \A s \in Sessions : proc[s] # "alive")

\* C11: once the signal handler has aborted the session (capture process
\* killed, worker joined for 3 s, files cleaned) and the program has left, no
\* session has a temp post clip, a concat list, an intermediate h264 or a
\* partly written output file on disk.
C11_NoTempArtifactsAfterAbort ==
    (pc = "exited" /\ signalled) =>
        \A s \in Sessions :
            ~f_post[s] /\ ~f_list[s] /\ ~f_h264[s] /\ f_out[s] # "partial"

\* C12: during normal operation, once the worker's wait on the capture
\* subprocess is over (the process has exited or the timeout has fired), that
\* subprocess is not alive.
C12_KilledAfterTimeout ==
    ~ShutdownBegun =>
        \A s \in Sessions : wpc[s] \notin {"idle", "wait"} => proc[s] # "alive"

\* C14: during normal operation a session whose capture subprocess ended with
\* a failure status (killed from outside, or an error) has no merged file at
\* its output path.
C14_KilledCaptureNoArtifact ==
    ~ShutdownBegun =>
        \A s \in Sessions : proc[s] = "failed" => f_out[s] # "merged"

\* the controller is monitoring: the stream runs and the loop pulls frames
Monitoring == pc = "loop" /\ running /\ cam = "alive"

\* the run is followed no further: one more session would have to begin
FollowedNoFurther ==
    pc = "sr_begin" /\ ~is_recording /\ nsessions >= session_limit

\* C13: every trigger, accepted or refused, is eventually followed by the
\* controller monitoring again or shutting down, whatever the capture
\* subprocess does.
C13_TriggerLeadsBackToMonitoring ==
    (pc = "trig_stop") ~> (Monitoring \/ ShutdownBegun \/ FollowedNoFurther)

\* the controller is monitoring again while the capture subprocess of the
\* session hangs and its worker has given up
C13_Witness ==
    /\ Monitoring
    /\ \E s \in Sessions : proc[s] = "alive" /\ wpc[s] = "done"

\* C15: when the stream has been restarted after a cycle in which a recording
\* was started, the detector is back in warm-up: not ready, no background
\* sample, no cooldown timestamp.
C15_DetectorResetAfterCycle ==
    [][(pc = "rs_start" /\ video_path # 0 /\ pc' = "loop" /\ cam' = "alive")
         => /\ ~background_ready'
            /\ background_frames' = 0
            /\ last_detection_time' = 0]_vars

\* C16: a failed restart of the stream after a recording cycle clears running,
\* and from the loop with running cleared the main thread goes nowhere but
\* into stop() (the finally of the loop).
C16_RestartFailureShutsDown ==
    [][/\ (pc = "rs_start" /\ pc' = "loop" /\ cam' # "alive") => ~running'
       /\ (pc = "loop" /\ ~running /\ pc' # pc /\ signalled' = signalled)
            => (pc' = "stop" /\ stack' = <<"exited">>)]_vars

\* the loop has been left for stop() after a failed restart
C16_Witness ==
    /\ pc = "stop"
    /\ stack = <<"exited">>
    /\ ~signalled
    /\ ~running
    /\ cam = "None"
    /\ nsessions >= 1

\* C17: once stop() or the signal handler has been entered, the monitoring
\* stream is not started again, no iteration of the loop runs detect(), and no
\* recording session is begun.
C17_ShutdownIsTerminal ==
    [][ShutdownBegun
         => /\ cam' = "alive" => cam = "alive"
            /\ nsessions' = nsessions
            /\ ~(pc = "loop" /\ running /\ IsStreaming)]_vars

\* C18: on a trigger the event is appended to the EventManager's list when
\* the loop hands over to _trigger_recording_sync, the stream is stopped by
\* the next step of the main thread, and a capture subprocess is started only
\* by start_recording, with the stream stopped and the event in the list.
C18_TriggerStepOrder ==
    [][/\ (pc = "loop" /\ pc' = "trig_stop")
            => (events' = Append(events, 0) /\ cam' = cam)
       /\ (pc = "trig_stop" /\ pc' = "sr_begin")
            => (cam' = "None" /\ events' = events /\ proc' = proc)
       /\ \A s \in Sessions :
            (proc[s] # "alive" /\ proc'[s] = "alive")
              => (pc = "sr_spawn" /\ cam = "None" /\ cam' = "None"
                  /\ Len(events) >= 1)]_vars

\* the capture runs, the stream is stopped and the event is in the list
C18_Witness ==
    /\ pc = "trig_sleep"
    /\ ~signalled
    /\ cam = "None"
    /\ proc[nsessions] = "alive"
    /\ Len(events) = 1

\* the trigger the main thread is serving and has not yet handed to
\* start_recording
Pending == IF pc \in {"trig_stop", "sr_begin"} THEN 1 ELSE 0

\* C19: the sessions begun, the triggers refused and the trigger being served
\* each have an event of their own: a trigger that start_recording met with
\* is_recording set never accounts for a session, neither at that call nor
\* later.
C19_DroppedTriggerNotQueued ==
    nsessions + conflicts + Pending <= Len(events)

\* a trigger was dropped, the session has ended since, and the controller
\* monitors with no session begun for the dropped trigger
C19_Witness ==
    /\ conflicts = 1
    /\ nsessions = 1
    /\ wpc[1] = "done"
    /\ ~is_recording
    /\ Monitoring
    /\ \A s \in Sessions : s > 1 => proc[s] = "none"

\* C20: check_and_cleanup_recording returns False and deletes the file when
\* it is under 1024 bytes, when ffprobe fails on it and when ffprobe times
\* out; it returns True and keeps the file when ffprobe succeeds.
C20_CheckRejectsAndDeletesCorrupt ==
    /\ checked.found \in {"small", "corrupt", "timeout"}
         => (~checked.ok /\ checked.deleted)
    /\ checked.found = "valid" => (checked.ok /\ ~checked.deleted)

\* C21: when the monitoring capture process has died while the controller is
\* monitoring, the main thread does not leave the loop for stop(): the
\* controller stays running (it restarts the stream and monitors again).
C21_DeadStreamRestarted ==
    [][(pc = "loop" /\ running /\ cam = "exited" /\ pc' # pc
          /\ signalled' = signalled)
         => (pc' # "stop" /\ running')]_vars

\* a ceiling of two reads: whatever the ceiling, a longer stream passes it
BufferCeiling == 2 * MaxChunk

\* C22: the bytes accumulated in the frame source's buffer never exceed the
\* ceiling, whatever the stream contains.
C22_ByteBufferBounded == Len(buffer) <= BufferCeiling

\* C23: after stop_stream, called with a live process, an exited one or none,
\* once or twice in a row, the frame source has no process handle and an empty
\* byte buffer, and a get_frame that follows returns None and leaves it so.
C23_StopStreamIdempotent ==
    LET n == Len(cam_calls)
    IN  /\ (n >= 1 /\ cam_calls[n] = "stop_stream")
             => (cam = "None" /\ buffer = <<>>)
        /\ (n >= 2 /\ cam_calls[n] = "get_frame"
               /\ cam_calls[n-1] = "stop_stream")
             => (ret_frame = "None" /\ cam = "None" /\ buffer = <<>>)

\* a started stream has been stopped twice in a row and then asked for a frame
C23_Witness ==
    /\ cam_calls = <<"start_stream", "stop_stream", "stop_stream", "get_frame">>
    /\ ret_frame = "None"
    /\ cam = "None"
    /\ buffer = <<>>

\* C24: from very_low to very_high the thresholds of SENSITIVITY_LEVELS
\* decrease strictly and the cooldowns do not increase, and a Config with one
\* of the five labels carries the threshold and the cooldown of that label.
C24_SensitivityTable ==
    /\ \A i \in 1..(Len(SensitivityLabels) - 1) :
          LET lo == SENSITIVITY_LEVELS[SensitivityLabels[i]]
              hi == SENSITIVITY_LEVELS[SensitivityLabels[i + 1]]
          IN  lo.threshold > hi.threshold /\ lo.cooldown >= hi.cooldown
    /\ config.sensitivity \in DOMAIN SENSITIVITY_LEVELS
         => /\ config.threshold = SENSITIVITY_LEVELS[config.sensitivity].threshold
            /\ config.cooldown = SENSITIVITY_LEVELS[config.sensitivity].cooldown

\* a system built with the label medium is at work with medium's profile
C24_Witness ==
    /\ config.sensitivity = "medium"
    /\ config.threshold = 6000
    /\ config.cooldown = 8
    /\ Len(pushed) >= 1

\* C27: the capacity of the pre-event buffer is pre_buffer times the camera
\* rate divided by the skip factor of the Config the system is built from,
\* and the buffer never holds more.
C27_CapacityFromConfig ==
    /\ BufferMaxlen(pre_buffer)
         = pre_buffer * (config.framerate \div config.skip_frames)
    /\ Len(frame_buffer) <= pre_buffer * (config.framerate \div config.skip_frames)

\* C25: a detect() call entered with the detector ready leaves it ready, and
\* the only step that takes a ready detector back to warm-up is reset().
C25_ReadinessMonotone ==
    [][/\ (background_ready /\ det_frame_count' = det_frame_count + 1)
            => background_ready'
       /\ (background_ready /\ ~background_ready')
            => (det_frame_count' = 0 /\ background_frames' = 0
                /\ background_frame' = "None")]_vars

\* a ready detector has reported motion and has been called again since,
\* within the cooldown and past a background update, and is still ready
C25_Witness ==
    /\ background_ready
    /\ trigger_times # <<>>
    /\ ~motion_detected
    /\ now - last_detection_time < COOLDOWN
    /\ background_frame = "blended"
    /\ det_frame_count > Warmup(detector_type) + 2

\* C26: with no call since construction or the last reset() the detector is
\* in its initial state; the first call after a reset() is not gated by the
\* cooldown (it absorbs a warm-up sample), and motion is reported only after
\* more calls than the warm-up count since the reset().
C26_ResetRestoresInitialState ==
    /\ det_frame_count = 0
         => /\ background_frames = 0
            /\ background_frame = "None"
            /\ ~background_ready
            /\ last_detection_time = 0
            /\ hand_positions = <<>>
    /\ det_frame_count = 1 => background_frames = 1
    /\ trigger_times # <<>> => det_frame_count > Warmup(detector_type)

\* reset() has been called on a detector that had just reported motion
C26_Witness ==
    /\ det_frame_count = 0
    /\ motion_detected = TRUE
    /\ was_ready
    /\ ~background_ready
    /\ last_detection_time = 0

\* C28: the pre-event buffer receives at most one push per skip_frames frames
\* the loop has pulled from the frame source.
C28_BufferSampledAtReducedRate ==
    Len(pushed) * config.skip_frames <= frame_count

\* C29: the loop pushes a frame into the pre-event buffer only while
\* is_recording is clear and no merge worker is between its start and its
\* finally.
C29_NoPushWhileRecording ==
    [][pushed' # pushed
         => /\ ~is_recording
            /\ \A s \in Sessions :
                 wpc[s] \notin {"wait", "check", "move", "mlist", "mrun",
                                "unlink"}]_vars

\* the loop is back while the session is still going on, and has pulled
\* frames it did not push
C29_Witness ==
    /\ pc = "loop"
    /\ is_recording
    /\ wpc[nsessions] = "wait"
    /\ Len(pushed) >= 1
    /\ frame_count > Len(pushed)

\* C30: the event list only grows at its end, by exactly one event at each
\* iteration in which detect() said True and at no other step; the events
\* before the last one are never touched; a session is begun for the newest
\* event, and the sessions the events are attributed to follow the order of
\* the events.
C30_EventLogAppendOnly ==
    /\ [](\A i, j \in 1..Len(events) :
            (i < j /\ events[i] # 0 /\ events[j] # 0) => events[i] < events[j])
    /\ [][/\ Len(events') >= Len(events)
           /\ (\A i \in 1..(Len(events) - 1) : events'[i] = events[i])
           /\ ((pc = "loop" /\ pc' = "trig_stop")
                 <=> (Len(events') = Len(events) + 1))
           /\ (nsessions' # nsessions
                 => /\ nsessions' = nsessions + 1
                    /\ pc = "sr_begin"
                    /\ events[Len(events)] = 0)]_vars

\* two triggers have each had their session, in the order of their events
C30_Witness ==
    /\ events = <<1, 2>>
    /\ nsessions = 2
    /\ Monitoring

\* C31: once a session has ended with its final file written and the
\* controller is past handle_recording_completed for it, an event of the
\* event list carries the session's path.
C31_EventCarriesArtifact ==
    \A s \in Sessions :
        (/\ wpc[s] = "done"
         /\ f_out[s] \in {"post", "merged"}
         /\ ~(pc = "trig_sleep" /\ video_path = s)
         /\ ~ShutdownBegun)
          => \E i \in 1..Len(events) : events[i] = s

C33_BackgroundBlendCadence ==
    [][detector_type = "simple"
         => /\ (det_frame_count' = det_frame_count + 1 /\ blended')
                 => /\ background_ready
                    /\ ~InCooldown(now, last_detection_time, COOLDOWN)
                    /\ ~motion_detected'
                    /\ det_frame_count' % BG_UPDATE_FAST = 0
            /\ (background_frame' # background_frame)
                 => \/ det_frame_count' = det_frame_count + 1 /\ blended'
                    \/ ~background_ready /\ background_ready'
                    \/ det_frame_count' = 0]_vars

\* the first blend of a ready detector, at its 70th call
C33_Witness ==
    /\ detector_type = "simple"
    /\ blended
    /\ background_frame = "blended"
    /\ det_frame_count % BG_UPDATE_FAST = 0
    /\ ~motion_detected

\* C34: a detect() call made less than COOLDOWN seconds after the last
\* reported motion returns False and changes nothing of the detector but its
\* call counter, whether or not the warm-up is complete; a detector whose
\* cooldown timestamp is clear is not within the cooldown.
C34_CooldownGateFirst ==
    /\ [](last_detection_time = 0 => now - last_detection_time >= COOLDOWN)
    /\ [][(det_frame_count' = det_frame_count + 1
             /\ now - last_detection_time < COOLDOWN)
            => /\ ~motion_detected'
               /\ ~blended'
               /\ UNCHANGED <<background_frames, background_frame,
                              background_ready, last_detection_time,
                              hand_positions, trigger_times>>]_vars

\* a call has been gated: it came within the cooldown of a reported motion
C34_Witness ==
    /\ trigger_times # <<>>
    /\ ~motion_detected
    /\ now - last_detection_time < COOLDOWN
    /\ det_frame_count > Warmup(detector_type) + 1

\* C35: the HandWaveDetector never tracks more than WAVE_PATTERN_FRAMES
\* positions; a call of it returns True only when it saw a hand, the window
\* made of the positions tracked before and the new one holds exactly
\* WAVE_PATTERN_FRAMES positions, spans at least MOVEMENT_THRESHOLD and has a
\* position that lies strictly beyond both its neighbours; the window is
\* empty after such a call.
C35_WaveNeedsReversal ==
    /\ [](Len(hand_positions) <= WAVE_PATTERN_FRAMES)
    /\ [][(detector_type = "hand_wave"
             /\ det_frame_count' = det_frame_count + 1 /\ motion_detected')
            => LET all == Append(hand_positions, det_input')
                   w == LastN(all, IF Len(all) < WAVE_PATTERN_FRAMES
                                   THEN Len(all) ELSE WAVE_PATTERN_FRAMES)
                   xs == {w[i] : i \in 1..Len(w)}
               IN  /\ det_input' # NoHand
                   /\ Len(w) = WAVE_PATTERN_FRAMES
                   /\ Max(xs) - Min(xs) >= MOVEMENT_THRESHOLD
                   /\ \E i \in 2..(Len(w) - 1) :
                        \/ w[i] > w[i-1] /\ w[i] > w[i+1]
                        \/ w[i] < w[i-1] /\ w[i] < w[i+1]
                   /\ hand_positions' = <<>>]_vars

\* a wave has just been reported and the window is empty
C35_Witness ==
    /\ detector_type = "hand_wave"
    /\ motion_detected = TRUE
    /\ det_input # NoHand
    /\ hand_positions = <<>>
    /\ last_detection_time = now

\* the seconds a capture of post seconds merged with a pre-roll of pre
\* seconds comes to: ffmpeg stops writing at its -t limit
MergedDuration(pre, post) ==
    IF pre + post > MERGE_TIME_LIMIT THEN MERGE_TIME_LIMIT ELSE pre + post

\* C36: the limit the merge step puts on the duration of its output is the
\* sum of the pre_buffer and the post_buffer the recorder is configured with.
C36_MergeLimitIsConfiguredSum ==
    /\ MERGE_TIME_LIMIT = config.pre_buffer + config.post_buffer
    /\ \A extra \in 0..2 :
          MergedDuration(config.pre_buffer + extra, config.post_buffer)
            <= config.pre_buffer + config.post_buffer

\* C37: once start_recording has returned the path of a session,
\* is_recording is eventually clear again, whatever the capture subprocess
\* and the merge do; and is_recording is set by nothing but the start of a
\* new session.
C37_SessionEventuallyEnds ==
    /\ (pc = "trig_sleep") ~> ~is_recording
    /\ [][(~is_recording /\ is_recording')
            => (pc = "sr_begin" /\ nsessions' = nsessions + 1)]_vars

\* the session has ended by its worker although its capture subprocess
\* hangs, and the controller is monitoring with is_recording clear
C37_Witness ==
    /\ Monitoring
    /\ ~signalled
    /\ ~is_recording
    /\ nsessions = 1
    /\ wpc[1] = "done"
    /\ proc[1] = "alive"

\* C38: when monitoring resumes after a recording cycle the pre-event buffer
\* holds no frame pushed before that cycle's trigger: the main thread pushes
\* nothing between the trigger and the restart of the stream, so the buffer
\* is empty at that moment.
C38_PreRollStartsAfresh ==
    [][(/\ pc = "rs_start" /\ pc' = "loop"
        /\ running'
        /\ nsessions >= 1 /\ video_path = nsessions)
        => frame_buffer' = <<>>]_vars

\* C39: a non-zero last_detection_time implies background_ready; the
\* timestamp is set only by a call of detect() that began READY and reports
\* motion, to the time of that call; and a step that clears background_ready
\* (reset) clears the timestamp with it.
C39_TimerOnlyWhileReady ==
    /\ [](last_detection_time # 0 => background_ready)
    /\ [][(last_detection_time' # last_detection_time /\ last_detection_time' # 0)
            => (/\ motion_detected'
                /\ background_ready /\ background_ready'
                /\ was_ready'
                /\ last_detection_time' = now)]_vars
    /\ [][(background_ready /\ ~background_ready')
            => (last_detection_time' = 0 /\ background_frames' = 0)]_vars

\* a call of detect() on a READY detector has just reported motion and set
\* the timestamp to the time of the call
C39_Witness ==
    /\ background_ready
    /\ was_ready
    /\ motion_detected
    /\ last_detection_time = now
    /\ trigger_times # <<>>

\* C40: every call of a public operation of the UnifiedCameraManager
\* eventually returns, its thread holding operation_lock no longer.
C40_OperationsReturn ==
    \A t \in Threads :
        (ucm_calls[t] # <<>>) ~> (ucm_calls[t] = <<>> /\ operation_lock # t)

====
